---- MODULE Spec2Model ----
(***************************************************************************)
(* A model of the resilience and tracking core of the pipeline:            *)
(*   - error_recovery.py: CircuitBreaker, RetryMechanism, FallbackHandler, *)
(*     ServiceResilienceManager.create_resilient_call                      *)
(*   - enhanced_ticket_tracking.py: EnhancedTicketTracker and              *)
(*     SmartTicketProcessor; enhanced_main.py: the processing cycle        *)
(*   - monitoring_system.py: MetricsCollector, AlertManager and its rules, *)
(*     HealthChecker                                                       *)
(* Each subsystem has its own specification (SpecBreaker, SpecRetry,       *)
(* SpecTicket, SpecCycle, SpecBatch, SpecTicketIO, SpecMetrics,            *)
(* SpecRetention, SpecThreads, SpecAlerts, SpecRuleLists, SpecHealth,      *)
(* SpecHang); the variables of the other subsystems stay at their initial  *)
(* values.                                                                 *)
(***************************************************************************)
EXTENDS Integers, Sequences, FiniteSets, TLC

VARIABLES
    \* ---- CircuitBreakerStats (error_recovery.py:28-34) and its callers
    state,              \* stats.state: "closed" | "open" | "half_open"
    failure_count,      \* stats.failure_count
    success_count,      \* stats.success_count
    last_failure_time,  \* stats.last_failure_time (NoTime = None)
    state_changed_at,   \* stats.state_changed_at
    now,                \* datetime.now(), in seconds
    fallback_registered,\* service in fallback_handler.fallback_strategies
    pc,                 \* per caller: position inside its call
    kind,               \* per caller: "breaker" (@circuit) or "resilient"
    attempt,            \* per caller: loop variable of _retry_call
    probe,              \* the caller admitted by the Open -> HalfOpen transition (0: none pending)
    consec_failures,    \* failures reported to the breaker since the last reported success
    event,              \* the last step taken and, when it ended a call, how the call ended
    \* ---- one call of RetryMechanism._retry_call (error_recovery.py:131-151)
    retry_config,       \* RetryConfig: max_attempts, base_delay, max_delay, exponential_base, jitter
    r_pc,               \* "idle" | "in_func" | "sleeping" | "returned" | "raised"
    r_attempt,          \* the loop variable attempt
    r_invocations,      \* invocations of the wrapped function
    r_outcomes,         \* what each invocation did: "ok" | "retriable" | "fatal"
    r_sleeps,           \* the delays of the asyncio.sleep calls, in order
    last_exception,     \* the local last_exception: <<kind, attempt>>, or <<>> for None
    r_raised,           \* the exception that left _retry_call, or <<>>
    \* ---- SmartTicketProcessor and its snapshot (enhanced_ticket_tracking.py:163-375)
    config,             \* EnhancedTicketTracker.config: max_retries, retry_delays
    processing_file,    \* processing_history.json: ticket key -> dict of fields
    history_file,       \* ticket_tracking.json, the file EnhancedTicketTracker reads
    wall,               \* time.time(), in units of 300 s
    tickets,            \* the issue tracker: ticket key -> [summary, description]
    completed_content,  \* per key: the ticket's content when it was last marked complete
    tk_event,           \* the last call: [op, key, returned, saved]
    \* ---- the processing cycle of enhanced_main.py
    pending,            \* the tickets get_pending_tickets has queued
    active,             \* the tickets process_single_ticket has marked started
    commenting,         \* the tickets process_single_ticket has marked complete and
                        \* is reporting to the issue tracker
    cycle_results,      \* per key: how its last process_single_ticket call ended
    \* ---- MetricsCollector (monitoring_system.py:44-87)
    retention_hours,    \* MetricsCollector.retention_hours
    metrics,            \* MetricsCollector.metrics: name -> deque of Metric
    mnow,               \* datetime.now() and time.time(), in minutes
    recorded,           \* per name: every Metric ever recorded, in the order of the calls
    m_event,            \* the last call on the collector and what it returned
    m_lock,             \* MetricsCollector._lock: the thread that holds it (0: free)
    m_threads,          \* per thread: the collector call it is in and its locals
    \* ---- AlertManager (monitoring_system.py:205-309)
    alert_rules,        \* AlertManager.alert_rules
    notification_handlers, \* AlertManager.notification_handlers
    active_alerts,      \* AlertManager.active_alerts: alert key -> Alert
    alert_history,      \* AlertManager.alert_history
    rule_idx,           \* _check_alerts: the index of the rule the loop evaluates next
    last_eval,          \* per alert key: what the rule's latest evaluation returned
    rule_eval,          \* per rule of the list: what its latest evaluation returned
    a_event,            \* the last step of _check_alerts
    \* ---- HealthChecker (monitoring_system.py:360-404)
    health_checks,      \* HealthChecker.health_checks: name -> [interval, last_check]
    last_check_results, \* HealthChecker.last_check_results
    last_invoked,       \* per probe: when its function was last invoked (NoTime: never)
    h_event,            \* the last run_health_checks call
    h_running,          \* the probe whose function run_health_checks is inside ("": none)
    \* ---- the monitoring loop of AlertManager (monitoring_system.py:226-251)
    am_running,         \* AlertManager.running
    check_thread,       \* AlertManager.check_thread: a thread of loop_threads (0: None)
    loop_threads,       \* the threads made by start_monitoring: [pc, idx, wake_at]
    main_call,          \* the thread that calls start_ and stop_monitoring: [pc, deadline]
    loop_clock,         \* time.time(), in units of 5 s
    l_event             \* the last step of the loop model

cbVars == <<state, failure_count, success_count, last_failure_time, state_changed_at,
            now, fallback_registered, pc, kind, attempt, probe, consec_failures, event>>

retryVars == <<retry_config, r_pc, r_attempt, r_invocations, r_outcomes, r_sleeps,
               last_exception, r_raised>>

tkVars == <<config, processing_file, history_file, wall, tickets, completed_content, tk_event>>

cycleVars == <<pending, active, commenting, cycle_results>>

metVars == <<retention_hours, metrics, mnow, recorded, m_event>>

alertVars == <<alert_rules, notification_handlers, active_alerts, alert_history,
               rule_idx, last_eval, rule_eval, a_event>>

healthVars == <<health_checks, last_check_results, last_invoked, h_event, h_running>>

thrVars == <<m_lock, m_threads>>

loopVars == <<am_running, check_thread, loop_threads, main_call, loop_clock, l_event>>

monVars == <<metVars, thrVars, alertVars, healthVars, loopVars>>

vars == <<cbVars, retryVars, tkVars, cycleVars, monVars>>

\* The variables of the other subsystems, for each subsystem.
nonBreakerVars == <<retryVars, tkVars, cycleVars, monVars>>
nonRetryVars == <<cbVars, tkVars, cycleVars, monVars>>
nonTicketVars == <<cbVars, retryVars, monVars>>
nonMonVars == <<cbVars, retryVars, tkVars, cycleVars>>

-----------------------------------------------------------------------------
(* Bounds of the model *)
NumCallers == 2
MaxNow == 2
MaxCalls == 4
MaxAttempts == 4
MaxWall == 16
AdvanceStep == 3
MaxAttemptCount == 3
MaxRetryCount == 3
MaxBatchWall == 4

MaxMinute == 2
MaxSamples == 4
MaxRecords == 61
MaxRetentionMinute == 1
MaxAlertSamples == 2
MaxHealthSamples == 4
MaxHealthMinutes == 3
MaxThreadRecords == 3
MaxFired == 3
MaxLoopThreads == 2
MaxKeyCalls == 1
MaxLoopClock == 13
MaxThreadMinute == 1

(* Program constants *)
DefaultRetentionHours == 24
SamplesPerHour == 60
AlertHistoryLimit == 1000
StartTime == 5
CheckInterval == 12
JoinTimeout == 1
failure_threshold == 2
recovery_timeout == 1
max_attempts == 3
NoTime == -1
ProcessingTimeout == 12
ResultLimit == 1000
ErrorLimit == 500

Callers == 1..NumCallers

Min(a, b) == IF a <= b THEN a ELSE b

-----------------------------------------------------------------------------
(* Python dicts: a dict is a function from its keys; d.get(k, default), d.update(u),
   d[k] = v and del d[k] *)
EmptyDict == [x \in {} |-> 0]

Get(d, k, default) == IF k \in DOMAIN d THEN d[k] ELSE default

Update(d, u) == u @@ d

Put(d, k, v) == (k :> v) @@ d

Delete(d, k) == [x \in DOMAIN d \ {k} |-> d[x]]

\* EnhancedTicketTracker.config as __init__ sets it (delays in units of 300 s)
DefaultConfig == [max_retries |-> 3, retry_delays |-> <<1, 3, 12, 24>>]

\* the ticket keys of the model, and the content of a ticket nobody has observed
Keys == {"T-1"}
NoContent == [summary |-> <<>>, description |-> <<>>]

\* what get_metric_stats returns for an empty window: the empty dict
NoData == EmptyDict

\* The threads that call the collector, and a thread that is in no call
Threads == {1, 2}

IdleThread ==
    [pc |-> "idle", op |-> "none", name |-> "", value |-> 0, window |-> 0, timestamp |-> 0,
     cutoff_time |-> 0, series |-> <<>>, idx |-> 0, history |-> <<>>, snapshot |-> <<>>]

IdleThreads ==
    /\ m_lock = 0
    /\ m_threads = [t \in Threads |-> IdleThread]

\* The collector's variables when no metric is recorded.
IdleMetrics ==
    /\ retention_hours = DefaultRetentionHours
    /\ metrics = EmptyDict
    /\ mnow = 0
    /\ recorded = EmptyDict
    /\ m_event = [op |-> "init", name |-> "", window |-> 0, history |-> <<>>, stats |-> NoData]
    /\ IdleThreads

\* The monitoring loop's variables when start_monitoring was never called.
IdleLoop ==
    /\ am_running = FALSE
    /\ check_thread = 0
    /\ loop_threads = <<>>
    /\ main_call = [pc |-> "idle", deadline |-> 0]
    /\ loop_clock = 0
    /\ l_event = [op |-> "init", thread |-> 0]

\* The alert manager's variables when no rule is registered.
IdleAlerts ==
    /\ IdleLoop
    /\ alert_rules = <<>>
    /\ notification_handlers = <<>>
    /\ active_alerts = EmptyDict
    /\ alert_history = <<>>
    /\ rule_idx = 1
    /\ last_eval = EmptyDict
    /\ rule_eval = <<>>
    /\ a_event = [op |-> "init"]

\* The health checker's variables when no probe is registered.
IdleHealth ==
    /\ health_checks = EmptyDict
    /\ last_check_results = EmptyDict
    /\ last_invoked = EmptyDict
    /\ h_event = [op |-> "init"]
    /\ h_running = ""

IdleMonitoring == IdleMetrics /\ IdleAlerts /\ IdleHealth

-----------------------------------------------------------------------------
(* CircuitBreaker *)

\* _should_attempt_reset
ShouldAttemptReset_GE(lft, t) ==
    /\ lft # NoTime
    /\ t - lft >= recovery_timeout

ShouldAttemptReset(lft, t) ==
    /\ lft # NoTime
    /\ t - lft > recovery_timeout

\* the locked section of _call: "admit", "probe" (Open -> HalfOpen) or "reject"
Admission_NoCheck(st, lft, t) ==
    "admit"

Admission(st, lft, t) ==
    IF st = "open"
    THEN IF ShouldAttemptReset(lft, t) THEN "probe" ELSE "reject"
    ELSE "admit"

\* _on_failure: does the failure that follows fc earlier ones open the breaker
OnFailureOpens_GT(fc) == fc + 1 > failure_threshold

OnFailureOpens_AnyFailure(fc) == TRUE

OnFailureOpens(fc) == fc + 1 >= failure_threshold

\* _on_success: the new state and failure_count
OnSuccessState(st) == IF st = "half_open" THEN "closed" ELSE st

OnSuccessFailureCount_AlwaysReset(st, fc) == 0

OnSuccessFailureCount(st, fc) == IF st = "half_open" THEN 0 ELSE fc

-----------------------------------------------------------------------------
(* RetryMechanism._retry_call: what the loop does with the outcome of attempt a *)
RetryDecision_OneMore(a, outcome, n) ==
    CASE outcome = "ok"        -> "return"
      [] outcome = "fatal"     -> "raise"
      [] outcome = "retriable" -> IF a = n THEN "raise" ELSE "sleep"

RetryDecision(a, outcome, n) ==
    CASE outcome = "ok"        -> "return"
      [] outcome = "fatal"     -> "raise"
      [] outcome = "retriable" -> IF a = n - 1 THEN "raise" ELSE "sleep"

(* FallbackHandler.execute_fallback and the except branch of the resilient wrapper:
   what the caller receives once the breaker-wrapped call raised e *)
WrapperResult_RaiseFallbackError(e, registered, fb) ==
    IF registered
    THEN IF fb = "returns" THEN "fallback_result" ELSE "fallback_error"
    ELSE "ValueError"

WrapperResult(e, registered, fb) ==
    IF registered /\ fb = "returns" THEN "fallback_result" ELSE e

FallbackStatus(registered, fb) ==
    IF ~registered THEN "missing"
    ELSE IF fb = "returns" THEN "returned" ELSE "raised"

RECURSIVE Pow(_, _)
Pow(b, e) == IF e = 0 THEN 1 ELSE b * Pow(b, e - 1)

(* RetryMechanism._calculate_delay before the jitter: delays are in units of 0.5 s *)
CalculateDelay_NoCap(cfg, a) ==
    cfg.base_delay * Pow(cfg.exponential_base, a)

CalculateDelay(cfg, a) ==
    Min(cfg.base_delay * Pow(cfg.exponential_base, a), cfg.max_delay)

\* delay *= (0.5 + random.random() * 0.5): the values of the grid inside [d/2, d]
Jittered(d) == {j \in 0..d : d <= 2 * j}

-----------------------------------------------------------------------------
(* The breaker and the calls made through it (specification SpecBreaker).
   asyncio runs one coroutine at a time and switches only at an await that
   suspends, so the locked sections of _call, _on_success and _on_failure are
   single steps; a caller can be suspended inside the wrapped function and in
   the sleep between two retry attempts. *)

\* The retry loop's variables when no retry loop is modelled.
IdleRetry ==
    /\ retry_config = [max_attempts |-> max_attempts, base_delay |-> 2, max_delay |-> 60,
                       exponential_base |-> 2, jitter |-> TRUE]
    /\ r_pc = "idle"
    /\ r_attempt = 0
    /\ r_invocations = 0
    /\ r_outcomes = <<>>
    /\ r_sleeps = <<>>
    /\ last_exception = <<>>
    /\ r_raised = <<>>

\* The ticket processor's variables when no ticket processing is modelled.
IdleTicket ==
    /\ config = DefaultConfig
    /\ processing_file = EmptyDict
    /\ history_file = EmptyDict
    /\ wall = 1
    /\ tickets = [k \in Keys |-> [summary |-> <<"a">>, description |-> <<>>]]
    /\ completed_content = [k \in Keys |-> NoContent]
    /\ tk_event = [op |-> "init", key |-> "", returned |-> FALSE, saved |-> "none"]
    /\ pending = {}
    /\ active = {}
    /\ commenting = {}
    /\ cycle_results = EmptyDict

\* The breaker's variables when no breaker is modelled.
IdleBreaker ==
    /\ state = "closed"
    /\ failure_count = 0
    /\ success_count = 0
    /\ last_failure_time = NoTime
    /\ state_changed_at = 0
    /\ now = 0
    /\ fallback_registered = TRUE
    /\ pc = [c \in Callers |-> "idle"]
    /\ kind = [c \in Callers |-> "none"]
    /\ attempt = [c \in Callers |-> 0]
    /\ probe = 0
    /\ consec_failures = 0
    /\ event = [op |-> "init", who |-> 0, from |-> "closed", kind |-> "none", invoked |-> 0,
                raised |-> "none", fallback |-> "not_invoked", result |-> "none"]

InFlight == Cardinality({c \in Callers : pc[c] # "idle"})

\* self._lock: does a caller at position p, between two steps, hold it. The
\* 'async with self._lock' blocks of _call, _on_success and _on_failure hold no
\* await that suspends, the wrapped function and the sleep are outside of them.
LockHeld_AcrossCall(p) == p \in {"in_func", "sleeping"}

LockHeld(p) == FALSE

\* caller c can enter 'async with self._lock'
LockIsFree(c) == \A o \in Callers \ {c} : ~LockHeld(pc[o])

\* The record of a step: op, the caller who, the breaker state it started from,
\* and for a step of a call: its kind, the invocations of the wrapped function
\* so far in the call, what the breaker-wrapped call raised ("none": nothing),
\* what became of the fallback ("not_invoked", "missing", "returned", "raised")
\* and what the caller received ("none": the call is still running).
Event(op, who, k, n, raised, fb, res) ==
    [op |-> op, who |-> who, from |-> state, kind |-> k, invoked |-> n,
     raised |-> raised, fallback |-> fb, result |-> res]

Plain(op) == Event(op, 0, "none", 0, "none", "not_invoked", "none")

InitBreaker ==
    /\ state = "closed"
    /\ failure_count = 0
    /\ success_count = 0
    /\ last_failure_time = NoTime
    /\ state_changed_at = 0
    /\ now = 0
    /\ fallback_registered \in BOOLEAN
    /\ pc = [c \in Callers |-> "idle"]
    /\ kind = [c \in Callers |-> "none"]
    /\ attempt = [c \in Callers |-> 0]
    /\ probe = 0
    /\ consec_failures = 0
    /\ event = Plain("init")
    /\ IdleRetry
    /\ IdleTicket
    /\ IdleMonitoring

Propagate_RejectSkipsFallback(op, c, k, n, e) ==
    IF k = "breaker" \/ op = "reject"
    THEN event' = Event(op, c, k, n, e, "not_invoked", e)
    ELSE \E fb \in {"returns", "raises"} :
           event' = Event(op, c, k, n, e, FallbackStatus(fallback_registered, fb),
                          WrapperResult(e, fallback_registered, fb))

\* The call of caller c (of kind k, after n invocations of the wrapped function)
\* ends with the breaker-wrapped call raising e. A caller using the breaker alone
\* receives e; the resilient wrapper goes through its except branch
\* (error_recovery.py:294-301), where fb is what the fallback coroutine does when
\* it is invoked.
Propagate(op, c, k, n, e) ==
    IF k = "breaker"
    THEN event' = Event(op, c, k, n, e, "not_invoked", e)
    ELSE \E fb \in {"returns", "raises"} :
           event' = Event(op, c, k, n, e, FallbackStatus(fallback_registered, fb),
                          WrapperResult(e, fallback_registered, fb))

\* A caller enters CircuitBreaker._call (directly, k = "breaker", or through
\* create_resilient_call, k = "resilient"): the locked check, then the first
\* invocation of the wrapped function.
CallStart(c, k) ==
    /\ pc[c] = "idle"
    /\ success_count + failure_count + InFlight < MaxCalls
    /\ LockIsFree(c)
    /\ LET adm == Admission(state, last_failure_time, now) IN
       IF adm = "reject"
       THEN /\ UNCHANGED <<state, state_changed_at, probe, pc, kind, attempt>>
            /\ Propagate("reject", c, k, 0, "CircuitBreakerOpenException")
       ELSE /\ state' = IF adm = "probe" THEN "half_open" ELSE state
            /\ state_changed_at' = IF adm = "probe" THEN now ELSE state_changed_at
            /\ probe' = IF adm = "probe" THEN c ELSE probe
            /\ pc' = [pc EXCEPT ![c] = "in_func"]
            /\ kind' = [kind EXCEPT ![c] = k]
            /\ attempt' = [attempt EXCEPT ![c] = 0]
            /\ event' = Event("call", c, k, 1, "none", "not_invoked", "none")
    /\ UNCHANGED <<failure_count, success_count, last_failure_time, now,
                   fallback_registered, consec_failures>>
    /\ UNCHANGED nonBreakerVars

\* The call of caller c is over.
Leave(c) ==
    /\ pc' = [pc EXCEPT ![c] = "idle"]
    /\ kind' = [kind EXCEPT ![c] = "none"]
    /\ attempt' = [attempt EXCEPT ![c] = 0]
    /\ probe' = IF probe = c THEN 0 ELSE probe

\* _on_success, then the return to the caller
ReportSuccess(c) ==
    /\ LockIsFree(c)
    /\ success_count' = success_count + 1
    /\ state' = OnSuccessState(state)
    /\ failure_count' = OnSuccessFailureCount(state, failure_count)
    /\ state_changed_at' = IF state = "half_open" THEN now ELSE state_changed_at
    /\ consec_failures' = 0
    /\ Leave(c)
    /\ event' = Event("success", c, kind[c], attempt[c] + 1, "none", "not_invoked", "ok")
    /\ UNCHANGED last_failure_time

\* _on_failure without the lock: the increment of a caller that reports while
\* another call is in flight is overwritten
ReportFailure_LostUpdate(c, e) ==
    /\ failure_count' = IF InFlight > 1 THEN failure_count ELSE failure_count + 1
    /\ last_failure_time' = now
    /\ state' = IF OnFailureOpens(failure_count) THEN "open" ELSE state
    /\ state_changed_at' = IF OnFailureOpens(failure_count) THEN now ELSE state_changed_at
    /\ consec_failures' = consec_failures + 1
    /\ Leave(c)
    /\ Propagate("failure", c, kind[c], attempt[c] + 1, e)
    /\ UNCHANGED success_count

\* _on_failure, then the exception e leaves the breaker
ReportFailure(c, e) ==
    /\ LockIsFree(c)
    /\ failure_count' = failure_count + 1
    /\ last_failure_time' = now
    /\ state' = IF OnFailureOpens(failure_count) THEN "open" ELSE state
    /\ state_changed_at' = IF OnFailureOpens(failure_count) THEN now ELSE state_changed_at
    /\ consec_failures' = consec_failures + 1
    /\ Leave(c)
    /\ Propagate("failure", c, kind[c], attempt[c] + 1, e)
    /\ UNCHANGED success_count

\* The wrapped function of caller c finishes its current attempt.
FuncReturn(c, outcome) ==
    /\ pc[c] = "in_func"
    /\ LET d == IF kind[c] = "breaker"
                THEN (IF outcome = "ok" THEN "return" ELSE "raise")
                ELSE RetryDecision(attempt[c], outcome, max_attempts)
       IN  CASE d = "return" -> ReportSuccess(c)
             [] d = "raise"  -> ReportFailure(c, outcome)
             [] d = "sleep"  ->
                  /\ pc' = [pc EXCEPT ![c] = "sleeping"]
                  /\ event' = Event("retry", c, kind[c], attempt[c] + 1, "none",
                                    "not_invoked", "none")
                  /\ UNCHANGED <<state, failure_count, success_count, last_failure_time,
                                 state_changed_at, kind, attempt, probe, consec_failures>>
    /\ UNCHANGED <<now, fallback_registered>>
    /\ UNCHANGED nonBreakerVars

\* asyncio.sleep(delay) is over: the next attempt of the retry loop
Wake(c) ==
    /\ pc[c] = "sleeping"
    /\ pc' = [pc EXCEPT ![c] = "in_func"]
    /\ attempt' = [attempt EXCEPT ![c] = attempt[c] + 1]
    /\ event' = Event("wake", c, kind[c], attempt[c] + 2, "none", "not_invoked", "none")
    /\ UNCHANGED <<state, failure_count, success_count, last_failure_time, state_changed_at,
                   now, fallback_registered, kind, probe, consec_failures>>
    /\ UNCHANGED nonBreakerVars

\* FallbackHandler.register_fallback for the service
RegisterFallback ==
    /\ ~fallback_registered
    /\ fallback_registered' = TRUE
    /\ event' = Plain("register")
    /\ UNCHANGED <<state, failure_count, success_count, last_failure_time, state_changed_at,
                   now, pc, kind, attempt, probe, consec_failures>>
    /\ UNCHANGED nonBreakerVars

\* One second passes.
Tick ==
    /\ now < MaxNow
    /\ now' = now + 1
    /\ event' = Plain("tick")
    /\ UNCHANGED <<state, failure_count, success_count, last_failure_time, state_changed_at,
                   fallback_registered, pc, kind, attempt, probe, consec_failures>>
    /\ UNCHANGED nonBreakerVars

NextBreaker ==
    \/ \E c \in Callers, k \in {"breaker", "resilient"} : CallStart(c, k)
    \/ \E c \in Callers, outcome \in {"ok", "retriable", "fatal"} : FuncReturn(c, outcome)
    \/ \E c \in Callers : Wake(c)
    \/ RegisterFallback
    \/ Tick

SpecBreaker == InitBreaker /\ [][NextBreaker]_vars

-----------------------------------------------------------------------------
(* Claims about the circuit breaker, checked under SpecBreaker *)

\* C1: after failure_threshold consecutive failing calls the breaker is Open, and a
\* call made while it is Open, before recovery_timeout has elapsed since
\* last_failure_time, fails with the circuit-open error and the wrapped function is
\* not invoked.
C1_OpenFailsFast ==
    [][ /\ (event'.op = "failure" /\ consec_failures' >= failure_threshold)
             => state' = "open"
        /\ (/\ state = "open"
            /\ now - last_failure_time < recovery_timeout
            /\ event'.op \in {"call", "reject"})
             => /\ event'.op = "reject"
                /\ event'.invoked = 0
                /\ event'.raised = "CircuitBreakerOpenException"
                /\ event'.kind = "breaker" => event'.result = "CircuitBreakerOpenException"
                /\ \A c \in Callers : pc'[c] = pc[c]
      ]_vars

C1_Witness ==
    /\ state = "open"
    /\ consec_failures >= failure_threshold
    /\ now - last_failure_time < recovery_timeout
    /\ event.op = "reject"
    /\ event.kind = "breaker"
    /\ event.invoked = 0
    /\ event.result = "CircuitBreakerOpenException"

\* C2: while the breaker is HalfOpen and the probe admitted by the Open -> HalfOpen
\* transition has not reported its outcome, no other caller is admitted and
\* invokes the wrapped function.
C2_SingleProbe ==
    [][ (state = "half_open" /\ probe # 0)
          => ~(event'.op = "call" /\ event'.who # probe /\ event'.invoked = 1) ]_vars

\* C3: the breaker leaves HalfOpen only on the outcome of the probe: its success
\* closes the breaker with failure_count 0, its failure opens it, and the outcome
\* of any other call leaves the state as it is.
C3_OnlyProbeLeavesHalfOpen ==
    [][ (state = "half_open" /\ event'.op \in {"success", "failure"})
          => IF event'.who = probe
             THEN IF event'.op = "success"
                  THEN state' = "closed" /\ failure_count' = 0
                  ELSE state' = "open"
             ELSE state' = state ]_vars

\* C4 as stated: Closed -> Open only with failure_count >= failure_threshold,
\* Open -> HalfOpen only when more than recovery_timeout has passed since
\* last_failure_time, and no other transition into Open or HalfOpen.
C4_OnlyTwoTransitions ==
    [][ /\ (state' = "open" /\ state # "open")
             => (state = "closed" /\ failure_count' >= failure_threshold)
        /\ (state' = "half_open" /\ state # "half_open")
             => /\ state = "open"
                /\ last_failure_time # NoTime
                /\ now - last_failure_time > recovery_timeout ]_vars

\* C4 as amended: the breaker enters Open only by a reported failure that leaves
\* failure_count >= failure_threshold, from Closed or from HalfOpen, and enters
\* HalfOpen only from Open when more than recovery_timeout has passed since
\* last_failure_time.
C4_GuardedTransitions ==
    [][ /\ (state' = "open" /\ state # "open")
             => /\ state \in {"closed", "half_open"}
                /\ event'.op = "failure"
                /\ failure_count' >= failure_threshold
        /\ (state' = "half_open" /\ state # "half_open")
             => /\ state = "open"
                /\ event'.op = "call"
                /\ last_failure_time # NoTime
                /\ now - last_failure_time > recovery_timeout ]_vars

C4_Witness ==
    /\ event.op = "failure"
    /\ event.from = "half_open"
    /\ state = "open"
    /\ failure_count >= failure_threshold

\* C5: when the breaker-wrapped call of a resilient call raised, the caller gets
\* the fallback's result if a fallback is registered and returns, and the error of
\* the primary call if the fallback raises or is missing; when the primary call
\* succeeded the fallback is not invoked.
C5_FallbackOrOriginalError ==
    (event.kind = "resilient" /\ event.op \in {"reject", "failure", "success"})
      => IF event.raised = "none"
         THEN event.fallback = "not_invoked" /\ event.result = "ok"
         ELSE /\ event.fallback = (IF fallback_registered THEN event.fallback ELSE "missing")
              /\ fallback_registered => event.fallback \in {"returned", "raised"}
              /\ event.fallback = "returned" => event.result = "fallback_result"
              /\ event.fallback \in {"raised", "missing"} => event.result = event.raised

C5_Witness ==
    /\ event.kind = "resilient"
    /\ event.op = "failure"
    /\ event.invoked = max_attempts
    /\ event.fallback = "raised"
    /\ event.raised = "retriable"
    /\ event.result = "retriable"

\* C35: in every reachable state of the breaker, Open and HalfOpen imply
\* failure_count >= failure_threshold, and failure_count goes down only by a
\* success reported while HalfOpen, which sets it to 0.
C35_OpenMeansThresholdReached ==
    /\ [](state \in {"open", "half_open"} => failure_count >= failure_threshold)
    /\ [][ failure_count' < failure_count
             => /\ event'.op = "success"
                /\ state = "half_open"
                /\ failure_count' = 0 ]_vars

C35_Witness ==
    /\ event.op = "success"
    /\ event.from = "half_open"
    /\ state = "closed"
    /\ failure_count = 0
    /\ last_failure_time # NoTime

\* C36: a success reported while Closed leaves failure_count and the state as they
\* are and adds one to success_count; failure_count never goes down while Closed;
\* and a failure that brings failure_count to failure_threshold opens the breaker,
\* whether or not successes came between the failures.
C36_SuccessKeepsFailureCount ==
    [][ /\ (event'.op = "success" /\ state = "closed")
             => /\ failure_count' = failure_count
                /\ state' = "closed"
                /\ success_count' = success_count + 1
                /\ last_failure_time' = last_failure_time
        /\ state = "closed" => failure_count' >= failure_count
        /\ (event'.op = "failure" /\ failure_count' >= failure_threshold)
             => state' = "open" ]_vars

\* a success came between the failures that opened the breaker
C36_Witness ==
    /\ event.op = "failure"
    /\ event.from = "closed"
    /\ state = "open"
    /\ failure_count = failure_threshold
    /\ consec_failures = 1
    /\ success_count >= 1

\* C37: a call through create_resilient_call made while the breaker is Open and
\* recovery_timeout has not passed does not invoke the wrapped function; the
\* caller receives the fallback's result when a fallback is registered and
\* returns, and the circuit-open error only when the fallback is missing or raises.
C37_RejectedCallFallsBack ==
    [][ \A c \in Callers :
          (/\ state = "open"
           /\ ~ShouldAttemptReset(last_failure_time, now)
           /\ event'.who = c
           /\ event'.kind = "resilient"
           /\ event'.op \in {"call", "reject"})
            => /\ event'.op = "reject"
               /\ event'.invoked = 0
               /\ pc'[c] = "idle"
               /\ state' = "open"
               /\ event'.result \in {"fallback_result", "CircuitBreakerOpenException"}
               /\ event'.result = "fallback_result"
                    <=> (fallback_registered /\ event'.fallback = "returned")
               /\ event'.result = "CircuitBreakerOpenException"
                    <=> event'.fallback \in {"missing", "raised"} ]_vars

C37_Witness ==
    /\ event.op = "reject"
    /\ event.kind = "resilient"
    /\ event.from = "open"
    /\ event.invoked = 0
    /\ event.fallback = "returned"
    /\ event.result = "fallback_result"

\* the wrapped function of caller c, called through create_resilient_call, has
\* just failed an attempt
AttemptFailed(c) ==
    /\ pc[c] = "in_func"
    /\ kind[c] = "resilient"
    /\ event'.who = c
    /\ event'.op \in {"retry", "failure"}

\* C22: when a call made through create_resilient_call is admitted as the HalfOpen
\* probe and the wrapped function fails, the breaker moves to Open after that one
\* failed invocation: the function has been invoked once and is not retried.
C22_ProbeIsNotRetried ==
    [][ \A c \in Callers :
          (AttemptFailed(c) /\ state = "half_open" /\ probe = c)
            => /\ event'.op = "failure"
               /\ event'.invoked = 1
               /\ state' = "open" ]_vars

\* C23: in a call made through create_resilient_call every failed attempt of the
\* wrapped function is reported to the breaker: while Closed it increments
\* failure_count by one, and the breaker opens as soon as the count reaches the
\* threshold.
C23_EveryAttemptIsReported ==
    [][ \A c \in Callers :
          (AttemptFailed(c) /\ state = "closed")
            => /\ failure_count' = failure_count + 1
               /\ failure_count' >= failure_threshold => state' = "open" ]_vars

C25_NoLostUpdate ==
    [][ /\ event'.op = "success"
             => /\ success_count' = success_count + 1
                /\ failure_count' = IF state = "half_open" THEN 0 ELSE failure_count
        /\ event'.op = "failure"
             => /\ failure_count' = failure_count + 1
                /\ success_count' = success_count
        /\ event'.op \notin {"success", "failure"}
             => /\ success_count' = success_count
                /\ failure_count' = failure_count
        /\ state' # state
             => /\ event'.op \in {"success", "failure", "call"}
                /\ state_changed_at' = now
                /\ event'.op = "call" => (state = "open" /\ state' = "half_open") ]_vars

\* caller 1 reports a failure while the call of caller 2 is in flight, after a
\* success had been reported
C25_Witness ==
    /\ event.op = "failure"
    /\ event.who = 1
    /\ pc[2] = "in_func"
    /\ success_count = 1
    /\ failure_count = 2
    /\ state = "open"

-----------------------------------------------------------------------------
(* One call of RetryMechanism._retry_call (specification SpecRetry) *)

BaseDelays == {0, 1, 2}
MaxDelays == {1, 4, 60}
ExponentialBases == {0, 1, 2, 3}

InitRetry ==
    /\ retry_config \in [max_attempts : 1..MaxAttempts, base_delay : BaseDelays,
                         max_delay : MaxDelays, exponential_base : ExponentialBases,
                         jitter : BOOLEAN]
    /\ r_pc = "idle"
    /\ r_attempt = 0
    /\ r_invocations = 0
    /\ r_outcomes = <<>>
    /\ r_sleeps = <<>>
    /\ last_exception = <<>>
    /\ r_raised = <<>>
    /\ IdleBreaker
    /\ IdleTicket
    /\ IdleMonitoring

\* _retry_call is entered: the loop starts with attempt 0 and invokes the function
RetryCall ==
    /\ r_pc = "idle"
    /\ r_pc' = "in_func"
    /\ r_attempt' = 0
    /\ r_invocations' = 1
    /\ UNCHANGED <<retry_config, r_outcomes, r_sleeps, last_exception, r_raised>>
    /\ UNCHANGED nonRetryVars

\* the invocation of attempt r_attempt ends with outcome
RetryAttemptEnds(outcome) ==
    /\ r_pc = "in_func"
    /\ r_outcomes' = Append(r_outcomes, outcome)
    /\ LET d == RetryDecision(r_attempt, outcome, retry_config.max_attempts)
           e == <<outcome, r_attempt>>
       IN  CASE d = "return" ->
                  /\ r_pc' = "returned"
                  /\ UNCHANGED <<r_sleeps, last_exception, r_raised>>
             [] d = "raise" ->
                  /\ r_pc' = "raised"
                  /\ last_exception' = IF outcome = "retriable" THEN e ELSE last_exception
                  /\ r_raised' = IF outcome = "retriable" THEN last_exception' ELSE e
                  /\ UNCHANGED r_sleeps
             [] d = "sleep" ->
                  /\ r_pc' = "sleeping"
                  /\ last_exception' = e
                  /\ \E j \in (IF retry_config.jitter
                               THEN Jittered(CalculateDelay(retry_config, r_attempt))
                               ELSE {CalculateDelay(retry_config, r_attempt)}) :
                        r_sleeps' = Append(r_sleeps, j)
                  /\ UNCHANGED r_raised
    /\ UNCHANGED <<retry_config, r_attempt, r_invocations>>
    /\ UNCHANGED nonRetryVars

\* asyncio.sleep is over: the next iteration of the loop invokes the function
RetryWake ==
    /\ r_pc = "sleeping"
    /\ r_pc' = "in_func"
    /\ r_attempt' = r_attempt + 1
    /\ r_invocations' = r_invocations + 1
    /\ UNCHANGED <<retry_config, r_outcomes, r_sleeps, last_exception, r_raised>>
    /\ UNCHANGED nonRetryVars

NextRetry ==
    \/ RetryCall
    \/ \E outcome \in {"ok", "retriable", "fatal"} : RetryAttemptEnds(outcome)
    \/ RetryWake

SpecRetry == InitRetry /\ [][NextRetry]_vars

-----------------------------------------------------------------------------
(* Claims about the retry loop, checked under SpecRetry *)

RetryDone == r_pc \in {"returned", "raised"}

\* C6: for max_attempts N >= 1 the loop invokes the function at least once and at
\* most N times and always can go on until it has returned or raised; it returns
\* on the first successful attempt, sleeps once between two consecutive attempts
\* and not after the last, raises the last error after N retriable failures, and
\* lets an error outside the retriable set out at once.
C6_RetryLoopBounded ==
    LET N == retry_config.max_attempts
        n == Len(r_outcomes)
    IN  /\ r_invocations <= N
        /\ r_pc # "idle" => r_invocations = r_attempt + 1
        /\ RetryDone \/ ENABLED NextRetry
        /\ RetryDone => /\ r_invocations >= 1
                        /\ n = r_invocations
                        /\ Len(r_sleeps) = r_invocations - 1
        /\ r_pc = "in_func" => Len(r_sleeps) = r_invocations - 1
        /\ r_pc = "sleeping" => Len(r_sleeps) = r_invocations /\ r_invocations < N
        /\ \A i \in 1..n :
             /\ r_outcomes[i] = "ok" => (i = n /\ r_pc = "returned")
             /\ r_outcomes[i] = "fatal" =>
                  (i = n /\ r_pc = "raised" /\ r_raised = <<"fatal", i - 1>>)
             /\ (r_outcomes[i] = "retriable" /\ i = n /\ RetryDone)
                  => (n = N /\ r_pc = "raised" /\ r_raised = <<"retriable", N - 1>>)
        /\ r_pc = "returned" => r_outcomes[n] = "ok"
        /\ r_pc = "raised" => r_outcomes[n] # "ok"

C6_Witness ==
    /\ retry_config.max_attempts = 3
    /\ r_pc = "raised"
    /\ r_outcomes = <<"retriable", "retriable", "retriable">>
    /\ r_invocations = 3
    /\ Len(r_sleeps) = 2
    /\ r_raised = <<"retriable", 2>>

\* the i-th term of the geometric sequence base, base * ratio, base * ratio^2, ...
RECURSIVE GeometricTerm(_, _, _)
GeometricTerm(base, ratio, i) ==
    IF i = 0 THEN base ELSE ratio * GeometricTerm(base, ratio, i - 1)

\* C7: with jitter disabled the delay before retry i (i = 0, 1, ...) is
\* min(base_delay * exponential_base^i, max_delay); for exponential_base >= 1 the
\* delays are non-decreasing, and every delay is at most max_delay.
C7_DelaySequence ==
    ~retry_config.jitter =>
      \A k \in 1..Len(r_sleeps) :
        LET term == GeometricTerm(retry_config.base_delay,
                                  retry_config.exponential_base, k - 1)
        IN  /\ r_sleeps[k] = (IF term < retry_config.max_delay
                              THEN term ELSE retry_config.max_delay)
            /\ r_sleeps[k] <= retry_config.max_delay
            /\ (retry_config.exponential_base >= 1 /\ k > 1)
                  => r_sleeps[k - 1] <= r_sleeps[k]

C7_Witness ==
    /\ ~retry_config.jitter
    /\ retry_config.base_delay = 2
    /\ retry_config.exponential_base = 2
    /\ retry_config.max_delay = 4
    /\ r_sleeps = <<2, 4, 4>>

-----------------------------------------------------------------------------
(* SmartTicketProcessor over processing_history.json (specification SpecTicket).
   Times are in units of 300 s. A text is modelled by its sequence of characters
   where it is hashed, and by its length where it is only truncated and stored. *)

Contents == {[summary |-> <<"a">>, description |-> <<"b">>],
             [summary |-> <<"a", "b">>, description |-> <<>>],
             [summary |-> <<"a">>, description |-> <<>>]}
ResultLens == {1001}
ErrorLens == {501}
Metadatas == {"general/general"}

\* the configurations of the model: the default one, and one whose delay table is
\* shorter than max_retries
Configs == {DefaultConfig, [max_retries |-> 3, retry_delays |-> <<1, 3>>]}

\* _calculate_content_hash: md5 of str(summary) + str(description); md5 is taken
\* to be free of collisions, NoHash is the None of a missing content_hash
NoHash == <<>>
CalculateContentHash(ticket_data) ==
    <<"md5">> \o ticket_data.summary \o ticket_data.description

\* _load_processing_history and _save_processing_history. io is what the write
\* does: "ok": the file holds history; "open_failed": open() raised and the file is
\* as before; "dump_failed": open() truncated the file and json.dump raised, and
\* the file is no JSON document, which _load_processing_history reads as {}.
\* Both exceptions are caught inside _save_processing_history.
LoadProcessingHistory == processing_file

SaveProcessingHistory(history, io) ==
    CASE io = "ok" -> history
      [] io = "open_failed" -> processing_file
      [] io = "dump_failed" -> EmptyDict

\* EnhancedTicketTracker._is_ready_for_retry at time t
IsReadyForRetry_IndexFromOne(cfg, ticket_data, t) ==
    IF Get(ticket_data, "status", "none") # "failed" THEN FALSE
    ELSE LET retry_count == Get(ticket_data, "retry_count", 0)
             last_attempt == Get(ticket_data, "last_attempt", 0)
         IN  IF retry_count >= cfg.max_retries THEN FALSE
             ELSE IF last_attempt = 0 THEN TRUE
             ELSE LET delay_index == Min(retry_count - 1, Len(cfg.retry_delays) - 1)
                  IN  t - last_attempt >= cfg.retry_delays[delay_index + 1]

IsReadyForRetry_BudgetOffByOne(cfg, ticket_data, t) ==
    IF Get(ticket_data, "status", "none") # "failed" THEN FALSE
    ELSE LET retry_count == Get(ticket_data, "retry_count", 0)
             last_attempt == Get(ticket_data, "last_attempt", 0)
         IN  IF retry_count > cfg.max_retries THEN FALSE
             ELSE IF last_attempt = 0 THEN TRUE
             ELSE LET delay_index == Min(retry_count, Len(cfg.retry_delays) - 1)
                  IN  t - last_attempt >= cfg.retry_delays[delay_index + 1]

IsReadyForRetry(cfg, ticket_data, t) ==
    IF Get(ticket_data, "status", "none") # "failed" THEN FALSE
    ELSE LET retry_count == Get(ticket_data, "retry_count", 0)
             last_attempt == Get(ticket_data, "last_attempt", 0)
         IN  IF retry_count >= cfg.max_retries THEN FALSE
             ELSE IF last_attempt = 0 THEN TRUE
             ELSE LET delay_index == Min(retry_count, Len(cfg.retry_delays) - 1)
                  IN  t - last_attempt >= cfg.retry_delays[delay_index + 1]

\* EnhancedTicketTracker._load_history: the tracker reads its own history_file;
\* _save_history, the only code that writes that file, has no caller
LoadHistory == history_file

\* EnhancedTicketTracker.get_retry_candidates at time t
GetRetryCandidates(t) ==
    LET history == LoadHistory
    IN  {[ticket_key |-> k, retry_count |-> Get(history[k], "retry_count", 0),
          last_attempt |-> Get(history[k], "last_attempt", NoTime)] :
            k \in {j \in DOMAIN history : IsReadyForRetry(config, history[j], t)}}

\* EnhancedTicketTracker.get_statistics at time t: the counts by status
GetStatistics(t) ==
    LET history == LoadHistory
        count(status) ==
            Cardinality({k \in DOMAIN history : Get(history[k], "status", "unknown") = status})
    IN  [total_tickets |-> Cardinality(DOMAIN history),
         completed |-> count("completed"),
         failed |-> count("failed"),
         processing |-> count("processing"),
         needs_reprocessing |-> count("needs_reprocessing"),
         retry_candidates |->
             Cardinality({k \in DOMAIN history : IsReadyForRetry(config, history[k], t)})]

\* the dict _mark_for_reprocessing writes for a key
MarkForReprocessing(history, k, reason, t) ==
    Put(history, k,
        Update(Get(history, k, EmptyDict),
               [status |-> "needs_reprocessing", reprocess_reason |-> reason,
                last_update |-> t]))

ShouldProcessResult_TimeoutInclusive(history, k, ticket_data, t) ==
    IF k \notin DOMAIN history THEN TRUE
    ELSE LET ticket_history == history[k]
             status == Get(ticket_history, "status", "none")
         IN  CASE status = "completed" ->
                    CalculateContentHash(ticket_data) # Get(ticket_history, "content_hash", NoHash)
               [] status = "processing" ->
                    t - Get(ticket_history, "last_update", 0) >= ProcessingTimeout
               [] status = "failed" -> IsReadyForRetry(config, ticket_history, t)
               [] OTHER -> TRUE

\* should_process_ticket: its return value
ShouldProcessResult(history, k, ticket_data, t) ==
    IF k \notin DOMAIN history THEN TRUE
    ELSE LET ticket_history == history[k]
             status == Get(ticket_history, "status", "none")
         IN  CASE status = "completed" ->
                    CalculateContentHash(ticket_data) # Get(ticket_history, "content_hash", NoHash)
               [] status = "processing" ->
                    t - Get(ticket_history, "last_update", 0) > ProcessingTimeout
               [] status = "failed" -> IsReadyForRetry(config, ticket_history, t)
               [] OTHER -> TRUE

\* should_process_ticket: does it call _mark_for_reprocessing
ShouldProcessMarks(history, k, ticket_data) ==
    /\ k \in DOMAIN history
    /\ Get(history[k], "status", "none") = "completed"
    /\ CalculateContentHash(ticket_data) # Get(history[k], "content_hash", NoHash)

InitTicket ==
    /\ config \in Configs
    /\ processing_file = EmptyDict
    /\ history_file = EmptyDict
    /\ wall = 1
    /\ tickets \in [Keys -> Contents]
    /\ completed_content = [k \in Keys |-> NoContent]
    /\ tk_event = [op |-> "init", key |-> "", returned |-> FALSE, saved |-> "none"]
    /\ pending = {}
    /\ active = {}
    /\ commenting = {}
    /\ cycle_results = EmptyDict
    /\ IdleBreaker
    /\ IdleRetry
    /\ IdleMonitoring

\* should_process_ticket(k, ticket.raw)
ShouldProcess(k, io) ==
    LET history == LoadProcessingHistory
        marks == ShouldProcessMarks(history, k, tickets[k])
    IN  /\ processing_file' =
             IF marks
             THEN SaveProcessingHistory(
                      MarkForReprocessing(LoadProcessingHistory, k, "Content changed", wall), io)
             ELSE processing_file
        /\ tk_event' = [op |-> "should_process", key |-> k,
                        returned |-> ShouldProcessResult(history, k, tickets[k], wall),
                        saved |-> IF marks THEN io ELSE "none"]
        /\ UNCHANGED <<config, history_file, wall, tickets, completed_content>>
        /\ UNCHANGED nonTicketVars

\* mark_processing_start(k)
MarkProcessingStart(k, io) ==
    LET history == LoadProcessingHistory
        old == Get(history, k, EmptyDict)
    IN  /\ Get(old, "attempt_count", 0) < MaxAttemptCount
        /\ processing_file' = SaveProcessingHistory(
             Put(history, k,
                 Update(old, [status |-> "processing", start_time |-> wall,
                              last_update |-> wall,
                              attempt_count |-> Get(old, "attempt_count", 0) + 1])), io)
        /\ tk_event' = [op |-> "mark_start", key |-> k, returned |-> FALSE, saved |-> io]
        /\ UNCHANGED <<config, history_file, wall, tickets, completed_content>>
        /\ UNCHANGED nonTicketVars

\* mark_processing_complete(k, result, metadata), result a text of result_len characters
MarkProcessingComplete(k, result_len, metadata, io) ==
    LET history == LoadProcessingHistory
        old == Get(history, k, EmptyDict)
    IN  /\ processing_file' = SaveProcessingHistory(
             Put(history, k,
                 Update(old, [status |-> "completed", completion_time |-> wall,
                              last_update |-> wall,
                              result |-> Min(result_len, ResultLimit),
                              metadata |-> metadata, retry_count |-> 0])), io)
        /\ completed_content' = [completed_content EXCEPT ![k] = tickets[k]]
        /\ tk_event' = [op |-> "mark_complete", key |-> k, returned |-> FALSE, saved |-> io]
        /\ UNCHANGED <<config, history_file, wall, tickets>>
        /\ UNCHANGED nonTicketVars

\* mark_processing_failed(k, error, metadata), error a text of error_len characters
MarkProcessingFailed(k, error_len, metadata, io) ==
    LET history == LoadProcessingHistory
        old == Get(history, k, EmptyDict)
        retry_count == Get(old, "retry_count", 0) + 1
    IN  /\ retry_count <= MaxRetryCount
        /\ processing_file' = SaveProcessingHistory(
             Put(history, k,
                 Update(old, [status |-> "failed", failure_time |-> wall,
                              last_update |-> wall, last_attempt |-> wall,
                              last_error |-> Min(error_len, ErrorLimit),
                              retry_count |-> retry_count, metadata |-> metadata])), io)
        /\ tk_event' = [op |-> "mark_failed", key |-> k, returned |-> FALSE, saved |-> io]
        /\ UNCHANGED <<config, history_file, wall, tickets, completed_content>>
        /\ UNCHANGED nonTicketVars

\* clear_ticket_history(k)
ClearTicketHistory(k, io) ==
    LET history == LoadProcessingHistory
    IN  /\ k \in DOMAIN history
        /\ processing_file' = SaveProcessingHistory(Delete(history, k), io)
        /\ tk_event' = [op |-> "clear", key |-> k, returned |-> FALSE, saved |-> io]
        /\ UNCHANGED <<config, history_file, wall, tickets, completed_content>>
        /\ UNCHANGED nonTicketVars

\* the ticket is edited in the issue tracker
EditTicket(k, content) ==
    /\ content # tickets[k]
    /\ tickets' = [tickets EXCEPT ![k] = content]
    /\ tk_event' = [op |-> "edit", key |-> k, returned |-> FALSE, saved |-> "none"]
    /\ UNCHANGED <<config, history_file, processing_file, wall, completed_content>>
    /\ UNCHANGED nonTicketVars

\* time passes
Advance ==
    /\ wall + AdvanceStep <= MaxWall
    /\ wall' = wall + AdvanceStep
    /\ tk_event' = [op |-> "advance", key |-> "", returned |-> FALSE, saved |-> "none"]
    /\ UNCHANGED <<config, history_file, processing_file, tickets, completed_content>>
    /\ UNCHANGED nonTicketVars

NextTicket ==
    \/ \E k \in Keys : ShouldProcess(k, "ok") /\ UNCHANGED cycleVars
    \/ \E k \in Keys : MarkProcessingStart(k, "ok") /\ UNCHANGED cycleVars
    \/ \E k \in Keys, n \in ResultLens, m \in Metadatas :
          MarkProcessingComplete(k, n, m, "ok") /\ UNCHANGED cycleVars
    \/ \E k \in Keys, n \in ErrorLens, m \in Metadatas :
          MarkProcessingFailed(k, n, m, "ok") /\ UNCHANGED cycleVars
    \/ \E k \in Keys : ClearTicketHistory(k, "ok") /\ UNCHANGED cycleVars
    \/ \E k \in Keys, content \in Contents : EditTicket(k, content) /\ UNCHANGED cycleVars
    \/ Advance /\ UNCHANGED cycleVars

SpecTicket == InitTicket /\ [][NextTicket]_vars

-----------------------------------------------------------------------------
(* Claims about the ticket processor, checked under SpecTicket *)

StatusOf(file, k) == IF k \in DOMAIN file THEN Get(file[k], "status", "none") ELSE "unseen"

\* the call just made was should_process_ticket(k, ...)
Asked(k) == tk_event'.op = "should_process" /\ tk_event'.key = k

\* C8: for a ticket that was started and marked complete, a shouldProcess call that
\* observes the summary and description the ticket had when it was completed
\* returns false and leaves the status Completed.
C8_CompletedUnchangedIsSkipped ==
    [][ \A k \in Keys :
          (/\ Asked(k)
           /\ StatusOf(processing_file, k) = "completed"
           /\ Get(processing_file[k], "attempt_count", 0) >= 1
           /\ tickets[k] = completed_content[k])
            => /\ tk_event'.returned = FALSE
               /\ StatusOf(processing_file', k) = "completed" ]_vars

\* C9: on a Completed ticket, a shouldProcess call whose observed content hash
\* differs from the stored one sets NeedsReprocessing and returns true; later
\* shouldProcess calls leave the status NeedsReprocessing; and a Completed ticket
\* yields true once per content change, that is, only when its content is not the
\* one it was completed with.
C9_ReprocessedOncePerChange ==
    [][ \A k \in Keys :
          Asked(k) =>
            /\ (/\ StatusOf(processing_file, k) = "completed"
                /\ CalculateContentHash(tickets[k])
                     # Get(processing_file[k], "content_hash", NoHash))
                 => /\ StatusOf(processing_file', k) = "needs_reprocessing"
                    /\ tk_event'.returned = TRUE
            /\ StatusOf(processing_file, k) = "needs_reprocessing"
                 => /\ StatusOf(processing_file', k) = "needs_reprocessing"
                    /\ tk_event'.returned = TRUE
            /\ (StatusOf(processing_file, k) = "completed" /\ tk_event'.returned = TRUE)
                 => tickets[k] # completed_content[k] ]_vars

\* the delay before the next retry of a record that has failed retry_count times
RetryDelayOf(cfg, retry_count) ==
    LET n == Len(cfg.retry_delays)
    IN  IF retry_count < n - 1 THEN cfg.retry_delays[retry_count + 1] ELSE cfg.retry_delays[n]

\* C10: a Failed record is retry-eligible exactly when retry_count < max_retries and
\* the delay of its retry_count (the last entry of the table for counts beyond it)
\* has passed since last_attempt, and shouldProcess on a Failed ticket returns that.
C10_RetryEligibility ==
    [][ \A k \in Keys :
          StatusOf(processing_file, k) = "failed" =>
            LET rec == processing_file[k]
                eligible == /\ rec.retry_count < config.max_retries
                            /\ wall - rec.last_attempt >= RetryDelayOf(config, rec.retry_count)
            IN  /\ IsReadyForRetry(config, rec, wall) = eligible
                /\ Asked(k) => tk_event'.returned = eligible ]_vars

C10_Witness ==
    /\ tk_event.op = "should_process"
    /\ tk_event.returned = TRUE
    /\ StatusOf(processing_file, "T-1") = "failed"
    /\ processing_file["T-1"].retry_count = 2
    /\ Len(config.retry_delays) = 2
    /\ wall - processing_file["T-1"].last_attempt = 3

\* C32: for a ticket in Processing, shouldProcess returns true exactly when more
\* than the one-hour timeout has passed since its last_update, and leaves the file
\* as it was in both cases; for an unseen key and for a NeedsReprocessing ticket it
\* returns true.
C32_ProcessingTimesOut ==
    [][ \A k \in Keys :
          Asked(k) =>
            /\ StatusOf(processing_file, k) = "processing"
                 => /\ tk_event'.returned
                         = (wall - processing_file[k].last_update > ProcessingTimeout)
                    /\ processing_file' = processing_file
            /\ StatusOf(processing_file, k) \in {"unseen", "needs_reprocessing"}
                 => tk_event'.returned = TRUE ]_vars

C32_Witness ==
    /\ tk_event.op = "should_process"
    /\ tk_event.returned = TRUE
    /\ StatusOf(processing_file, "T-1") = "processing"
    /\ wall - processing_file["T-1"].last_update > ProcessingTimeout

\* C34: ticket state lives in one snapshot: get_statistics and
\* get_retry_candidates of the tracker report exactly the records the markStart,
\* markComplete and markFailed calls wrote, so a ticket that markFailed left Failed
\* and retry-eligible is among the retry candidates.
C34_TrackerReportsWrittenRecords ==
    /\ GetStatistics(wall).total_tickets = Cardinality(DOMAIN processing_file)
    /\ GetStatistics(wall).failed
         = Cardinality({k \in DOMAIN processing_file : StatusOf(processing_file, k) = "failed"})
    /\ \A k \in Keys :
          (/\ StatusOf(processing_file, k) = "failed"
           /\ IsReadyForRetry(config, processing_file[k], wall))
            => \E c \in GetRetryCandidates(wall) :
                  /\ c.ticket_key = k
                  /\ c.retry_count = processing_file[k].retry_count

-----------------------------------------------------------------------------
(* The processing cycle of enhanced_main.py (specification SpecCycle):
   get_pending_tickets asks should_process_ticket for every ticket the issue
   tracker returns and queues those it accepts; process_single_ticket marks the
   ticket started, works, marks it complete and reports to the issue tracker; an
   exception anywhere in it, also while reporting, marks the ticket failed.
   main_processing_loop, which calls the two, is not among the sources: it is
   taken to poll, and to process each queued ticket once, one after the other. *)

\* main_processing_loop: it polls between two calls of process_single_ticket, and
\* a ticket that is queued is not asked about again before it has been processed
LoopPolls(k) == k \notin pending /\ active = {} /\ commenting = {}

\* main_processing_loop: it hands a queued ticket to process_single_ticket when
\* no other ticket is being processed
LoopDispatches(k) == k \in pending /\ active = {} /\ commenting = {}

\* process_single_ticket: the "success" field of the dict it returns, on the last
\* line of the try block and in the except branch
ProcessResult(excepted) == IF excepted THEN "failure" ELSE "success"

\* get_pending_tickets, the loop body for ticket k
GetPendingTickets(k) ==
    /\ LoopPolls(k)
    /\ ShouldProcess(k, "ok")
    /\ pending' = IF tk_event'.returned THEN pending \cup {k} ELSE pending
    /\ UNCHANGED <<active, commenting, cycle_results>>

\* process_single_ticket up to mark_processing_start
ProcessStarts(k) ==
    /\ LoopDispatches(k)
    /\ MarkProcessingStart(k, "ok")
    /\ pending' = pending \ {k}
    /\ active' = active \cup {k}
    /\ UNCHANGED <<commenting, cycle_results>>

\* process_single_ticket: the work succeeded, mark_processing_complete
ProcessCompletes(k, result_len, metadata) ==
    /\ k \in active
    /\ MarkProcessingComplete(k, result_len, metadata, "ok")
    /\ active' = active \ {k}
    /\ commenting' = commenting \cup {k}
    /\ UNCHANGED <<pending, cycle_results>>

\* process_single_ticket: the comment was added, the function returns
ProcessReturns(k) ==
    /\ k \in commenting
    /\ commenting' = commenting \ {k}
    /\ cycle_results' = Put(cycle_results, k, ProcessResult(FALSE))
    /\ tk_event' = [op |-> "return", key |-> k, returned |-> FALSE, saved |-> "none"]
    /\ UNCHANGED <<config, history_file, processing_file, wall, tickets, completed_content, pending, active>>
    /\ UNCHANGED nonTicketVars

\* process_single_ticket: an exception leaves the try block and is not caught;
\* the ticket's record is as the last mark_* call left it
ProcessFails_Reraise(k, error_len, metadata) ==
    /\ k \in active \cup commenting
    /\ active' = active \ {k}
    /\ commenting' = commenting \ {k}
    /\ cycle_results' = Put(cycle_results, k, "raised")
    /\ tk_event' = [op |-> "raise", key |-> k, returned |-> FALSE, saved |-> "none"]
    /\ UNCHANGED <<config, history_file, processing_file, wall, tickets, completed_content, pending>>
    /\ UNCHANGED nonTicketVars

\* process_single_ticket: an exception, before or after mark_processing_complete,
\* reaches the except branch, mark_processing_failed and the return of the
\* failure result
ProcessFails(k, error_len, metadata) ==
    /\ k \in active \cup commenting
    /\ MarkProcessingFailed(k, error_len, metadata, "ok")
    /\ active' = active \ {k}
    /\ commenting' = commenting \ {k}
    /\ cycle_results' = Put(cycle_results, k, ProcessResult(TRUE))
    /\ UNCHANGED pending

\* the process is killed and started again: the snapshot file is all that is kept
Restart ==
    /\ pending \cup active \cup commenting # {}
    /\ pending' = {}
    /\ active' = {}
    /\ commenting' = {}
    /\ cycle_results' = EmptyDict
    /\ tk_event' = [op |-> "restart", key |-> "", returned |-> FALSE, saved |-> "none"]
    /\ UNCHANGED <<config, history_file, processing_file, wall, tickets, completed_content>>
    /\ UNCHANGED nonTicketVars

NextCycle ==
    \/ \E k \in Keys : GetPendingTickets(k)
    \/ \E k \in Keys : ProcessStarts(k)
    \/ \E k \in Keys, n \in ResultLens, m \in Metadatas : ProcessCompletes(k, n, m)
    \/ \E k \in Keys : ProcessReturns(k)
    \/ \E k \in Keys, n \in ErrorLens, m \in Metadatas : ProcessFails(k, n, m)
    \/ Restart
    \/ \E k \in Keys, content \in Contents : EditTicket(k, content) /\ UNCHANGED cycleVars
    \/ Advance /\ UNCHANGED cycleVars

SpecCycle == InitTicket /\ [][NextCycle]_vars

\* a Failed record whose retry budget is used up
Exhausted(file, k) ==
    /\ StatusOf(file, k) = "failed"
    /\ Get(file[k], "retry_count", 0) >= config.max_retries

\* C11: in the processing cycle, once a ticket is Failed with retry_count >=
\* max_retries, every shouldProcess call on it returns false, whatever the time
\* and the observed content, its record stays as it is, and it is never marked
\* started again.
C11_ExhaustedIsNeverRetried ==
    [][ \A k \in Keys :
          Exhausted(processing_file, k) =>
            /\ Asked(k) => tk_event'.returned = FALSE
            /\ ~(tk_event'.op = "mark_start" /\ tk_event'.key = k)
            /\ processing_file' = processing_file ]_vars

C11_Witness ==
    /\ Exhausted(processing_file, "T-1")
    /\ tk_event.op = "should_process"
    /\ tk_event.returned = FALSE
    /\ wall - processing_file["T-1"].last_attempt
         >= RetryDelayOf(config, processing_file["T-1"].retry_count)
    /\ processing_file["T-1"].attempt_count = 3

-----------------------------------------------------------------------------
(* A cycle over several tickets (specification SpecBatch): the issue tracker
   holds the tickets of BatchKeys, get_pending_tickets queues those
   should_process_ticket accepts and the loop processes them one after the other. *)

BatchKeys == {"T-1", "T-2"}

InitBatch ==
    /\ config = DefaultConfig
    /\ processing_file = EmptyDict
    /\ history_file = EmptyDict
    /\ wall = 1
    /\ tickets = [k \in BatchKeys |-> [summary |-> <<"a">>, description |-> <<"b">>]]
    /\ completed_content = [k \in BatchKeys |-> NoContent]
    /\ tk_event = [op |-> "init", key |-> "", returned |-> FALSE, saved |-> "none"]
    /\ pending = {}
    /\ active = {}
    /\ commenting = {}
    /\ cycle_results = EmptyDict
    /\ IdleBreaker
    /\ IdleRetry
    /\ IdleMonitoring

NextBatch ==
    \/ \E k \in BatchKeys : GetPendingTickets(k)
    \/ \E k \in BatchKeys : ProcessStarts(k)
    \/ \E k \in BatchKeys, n \in ResultLens, m \in Metadatas : ProcessCompletes(k, n, m)
    \/ \E k \in BatchKeys : ProcessReturns(k)
    \/ \E k \in BatchKeys, n \in ErrorLens, m \in Metadatas : ProcessFails(k, n, m)
    \/ wall < MaxBatchWall /\ Advance /\ UNCHANGED cycleVars

SpecBatch == InitBatch /\ [][NextBatch]_vars

\* C21: processing one ticket never raises to the cycle loop: whenever a ticket
\* leaves process_single_ticket other than by the normal return, the call has
\* returned a failure result, the ticket's record has been marked failed, the
\* queue of the cycle is as it was and every ticket still queued can be handed to
\* process_single_ticket; no call ever ends by raising.
C21_FailureStaysInsideTheTicket ==
    [][ /\ \A k \in BatchKeys :
             (/\ k \in active \cup commenting
              /\ k \notin active' \cup commenting'
              /\ tk_event'.op # "return")
               => /\ tk_event'.op = "mark_failed" /\ tk_event'.key = k
                  /\ Get(cycle_results', k, "none") = "failure"
                  /\ StatusOf(processing_file', k) = "failed"
                  /\ pending' = pending
                  /\ \A j \in pending' : j \in pending' /\ active' = {} /\ commenting' = {}
        /\ \A k \in DOMAIN cycle_results' : cycle_results'[k] # "raised" ]_vars

\* T-1 failed after it had been marked complete, T-2 is still queued and T-1's
\* earlier attempt of the same kind is on record
C21_Witness ==
    /\ tk_event.op = "mark_failed"
    /\ tk_event.key = "T-1"
    /\ cycle_results = ("T-1" :> "failure")
    /\ StatusOf(processing_file, "T-1") = "failed"
    /\ "completion_time" \in DOMAIN processing_file["T-1"]
    /\ pending = {"T-2"}
    /\ active = {}
    /\ commenting = {}

-----------------------------------------------------------------------------
(* The ticket processor when writing the snapshot can fail (specification
   SpecTicketIO): every call that writes draws what its write does. *)

IOs == {"ok", "open_failed", "dump_failed"}

NextTicketIO ==
    \/ \E k \in Keys, io \in IOs : ShouldProcess(k, io) /\ UNCHANGED cycleVars
    \/ \E k \in Keys, io \in IOs : MarkProcessingStart(k, io) /\ UNCHANGED cycleVars
    \/ \E k \in Keys, n \in ResultLens, m \in Metadatas, io \in IOs :
          MarkProcessingComplete(k, n, m, io) /\ UNCHANGED cycleVars
    \/ \E k \in Keys, n \in ErrorLens, m \in Metadatas, io \in IOs :
          MarkProcessingFailed(k, n, m, io) /\ UNCHANGED cycleVars
    \/ \E k \in Keys, io \in IOs : ClearTicketHistory(k, io) /\ UNCHANGED cycleVars
    \/ Advance /\ UNCHANGED cycleVars

SpecTicketIO == InitTicket /\ [][NextTicketIO]_vars

\* the status a mutating call gives the record
MutatedStatus(op) ==
    CASE op = "mark_start" -> "processing"
      [] op = "mark_complete" -> "completed"
      [] op = "mark_failed" -> "failed"
      [] op = "should_process" -> "needs_reprocessing"

\* C19: when the write of the snapshot fails during markStart, markComplete,
\* markFailed or the NeedsReprocessing marking, the mutation remains in effect:
\* what the next call on the key loads is the mutated record.
C19_MutationSurvivesFailedWrite ==
    [][ \A k \in Keys :
          (/\ tk_event'.key = k
           /\ tk_event'.op \in {"mark_start", "mark_complete", "mark_failed", "should_process"}
           /\ tk_event'.saved \in {"open_failed", "dump_failed"})
            => StatusOf(processing_file', k) = MutatedStatus(tk_event'.op) ]_vars

\* the counters of the record the file holds for a key, 0 where it holds none
AttemptCountOf(file, k) == Get(Get(file, k, EmptyDict), "attempt_count", 0)
RetryCountOf(file, k) == Get(Get(file, k, EmptyDict), "retry_count", 0)

\* C33: over any sequence of mutators on a key, attempt_count is the number of
\* markStart calls since the record was created and retry_count the number of
\* markFailed calls since the last markComplete: markStart adds one to
\* attempt_count and keeps retry_count, markComplete sets retry_count to 0 and
\* keeps attempt_count, markFailed adds one to retry_count, keeps attempt_count and
\* stamps last_attempt with the current time, and no other call changes either.
C33_CountersFollowCalls ==
    [][ \A k \in Keys :
          LET a == AttemptCountOf(processing_file, k)
              r == RetryCountOf(processing_file, k)
              a2 == AttemptCountOf(processing_file', k)
              r2 == RetryCountOf(processing_file', k)
              did(op) == tk_event'.op = op /\ tk_event'.key = k
          IN  /\ did("mark_start") => a2 = a + 1 /\ r2 = r
              /\ did("mark_complete") => a2 = a /\ r2 = 0
              /\ did("mark_failed")
                   => /\ a2 = a /\ r2 = r + 1
                      /\ Get(Get(processing_file', k, EmptyDict), "last_attempt", NoTime) = wall
              /\ tk_event'.op \in {"should_process", "advance"} => a2 = a /\ r2 = r ]_vars

\* The mutators over two keys at one instant, with writes that can fail
\* (specification SpecTicketKeys).
NextTicketKeys ==
    \/ \E k \in BatchKeys, io \in IOs : ShouldProcess(k, io) /\ UNCHANGED cycleVars
    \/ \E k \in BatchKeys, io \in IOs :
          /\ AttemptCountOf(processing_file, k) < MaxKeyCalls
          /\ MarkProcessingStart(k, io) /\ UNCHANGED cycleVars
    \/ \E k \in BatchKeys, n \in ResultLens, m \in Metadatas, io \in IOs :
          MarkProcessingComplete(k, n, m, io) /\ UNCHANGED cycleVars
    \/ \E k \in BatchKeys, n \in ErrorLens, m \in Metadatas, io \in IOs :
          /\ RetryCountOf(processing_file, k) < MaxKeyCalls
          /\ MarkProcessingFailed(k, n, m, io) /\ UNCHANGED cycleVars
    \/ \E k \in BatchKeys, io \in IOs : ClearTicketHistory(k, io) /\ UNCHANGED cycleVars

SpecTicketKeys == InitBatch /\ [][NextTicketKeys]_vars

\* the fields the update() of a mutating call sets
SetFields(op) ==
    CASE op = "mark_start" -> {"status", "start_time", "last_update", "attempt_count"}
      [] op = "mark_complete" -> {"status", "completion_time", "last_update", "result",
                                  "metadata", "retry_count"}
      [] op = "mark_failed" -> {"status", "failure_time", "last_update", "last_attempt",
                                "last_error", "retry_count", "metadata"}
      [] op = "should_process" -> {"status", "reprocess_reason", "last_update"}

\* C39: a mutator call for key k (markStart, markComplete, markFailed, the
\* NeedsReprocessing marking, clear_ticket_history) leaves the persisted record of
\* every other key as it was, and the fields of k's record that it does not set
\* keep their values.
C39_MutatorsTouchOnlyTheirKey ==
    [][ \A k \in BatchKeys :
          (/\ tk_event'.key = k
           /\ tk_event'.op \in {"mark_start", "mark_complete", "mark_failed",
                                 "should_process", "clear"})
            => /\ \A j \in BatchKeys \ {k} :
                    /\ j \in DOMAIN processing_file' <=> j \in DOMAIN processing_file
                    /\ j \in DOMAIN processing_file => processing_file'[j] = processing_file[j]
               /\ (tk_event'.op # "clear" /\ k \in DOMAIN processing_file)
                    => /\ k \in DOMAIN processing_file'
                       /\ \A f \in DOMAIN processing_file[k] \ SetFields(tk_event'.op) :
                             /\ f \in DOMAIN processing_file'[k]
                             /\ processing_file'[k][f] = processing_file[k][f] ]_vars

\* the edges of the state machine of a ticket record
LegalEdges ==
    {<<"unseen", "processing">>, <<"processing", "completed">>,
     <<"processing", "failed">>, <<"failed", "processing">>,
     <<"completed", "needs_reprocessing">>, <<"needs_reprocessing", "processing">>}

\* C20: a shouldProcess, markStart, markComplete or markFailed call changes a
\* ticket's status only along the edges unseen -> Processing, Processing ->
\* Completed, Processing -> Failed, Failed -> Processing, Completed ->
\* NeedsReprocessing and NeedsReprocessing -> Processing; a mutator called for any
\* other move leaves the record unchanged.
C20_OnlyLegalEdges ==
    [][ \A k \in Keys :
          (/\ tk_event'.key = k
           /\ tk_event'.op \in {"mark_start", "mark_complete", "mark_failed", "should_process"})
            => LET from == StatusOf(processing_file, k)
                   to == StatusOf(processing_file', k)
               IN  /\ from # to => <<from, to>> \in LegalEdges
                   /\ (/\ tk_event'.op # "should_process"
                       /\ from # MutatedStatus(tk_event'.op)
                       /\ <<from, MutatedStatus(tk_event'.op)>> \notin LegalEdges)
                        => processing_file' = processing_file ]_vars

-----------------------------------------------------------------------------
(* MetricsCollector (specifications SpecMetrics and SpecRetention). Times are in
   minutes, values are integers; a mean, a median and a variance are exact
   fractions <<numerator, denominator>>, and the standard deviation is given by
   its square, the sample variance. *)

Values == {10, 20, 30}
RecordNames == {"test_metric"}
QueryNames == {"test_metric", "pipeline_tickets_failed"}
Windows == {0, 1, 60}

\* deque(maxlen = retention_hours * 60)
MaxLen(hours) == hours * SamplesPerHour

\* deque.append on a deque of maxlen n
DequeAppend_DropNewest(d, n, m) ==
    IF Len(d) < n THEN Append(d, m) ELSE d

DequeAppend(d, n, m) ==
    IF n = 0 THEN d
    ELSE IF Len(d) = n THEN Append(Tail(d), m)
    ELSE Append(d, m)

\* the Metric record_metric builds at time t
Metric(name, value, t) ==
    [name |-> name, value |-> value, timestamp |-> t, labels |-> "{}", unit |-> ""]

\* record_metric: self.metrics[name].append(metric) on the defaultdict
Recorded(ms, hours, name, value, t) ==
    Put(ms, name, DequeAppend(Get(ms, name, <<>>), MaxLen(hours), Metric(name, value, t)))

\* get_metric_history
GetMetricHistory_Exclusive(ms, name, duration_minutes, t) ==
    IF name \notin DOMAIN ms THEN <<>>
    ELSE LET cutoff_time == t - duration_minutes
             InWindow(m) == m.timestamp > cutoff_time
         IN  SelectSeq(ms[name], InWindow)

GetMetricHistory(ms, name, duration_minutes, t) ==
    IF name \notin DOMAIN ms THEN <<>>
    ELSE LET cutoff_time == t - duration_minutes
             InWindow(m) == m.timestamp >= cutoff_time
         IN  SelectSeq(ms[name], InWindow)

\* sum(values), min(values), max(values) as loops over the list
RECURSIVE SumOf(_)
SumOf(values) == IF values = <<>> THEN 0 ELSE Head(values) + SumOf(Tail(values))

RECURSIVE SumOfSquares(_)
SumOfSquares(values) ==
    IF values = <<>> THEN 0 ELSE Head(values) * Head(values) + SumOfSquares(Tail(values))

RECURSIVE MinOf(_)
MinOf(values) ==
    IF Len(values) = 1 THEN Head(values)
    ELSE LET m == MinOf(Tail(values)) IN IF Head(values) <= m THEN Head(values) ELSE m

RECURSIVE MaxOf(_)
MaxOf(values) ==
    IF Len(values) = 1 THEN Head(values)
    ELSE LET m == MaxOf(Tail(values)) IN IF Head(values) >= m THEN Head(values) ELSE m

\* sorted(values)
RECURSIVE Insert(_, _)
Insert(x, sorted) ==
    IF sorted = <<>> THEN <<x>>
    ELSE IF x <= Head(sorted) THEN <<x>> \o sorted
    ELSE <<Head(sorted)>> \o Insert(x, Tail(sorted))

RECURSIVE Sorted(_)
Sorted(values) == IF values = <<>> THEN <<>> ELSE Insert(Head(values), Sorted(Tail(values)))

\* statistics.mean, statistics.median, statistics.stdev (squared)
Mean(values) == <<SumOf(values), Len(values)>>

Median(values) ==
    LET data == Sorted(values)
        n == Len(data)
    IN  IF n % 2 = 1 THEN <<data[(n \div 2) + 1], 1>>
        ELSE <<data[n \div 2] + data[(n \div 2) + 1], 2>>

Variance_Population(values) ==
    LET n == Len(values)
    IN  <<n * SumOfSquares(values) - SumOf(values) * SumOf(values), n * n>>

Variance(values) ==
    LET n == Len(values)
    IN  <<n * SumOfSquares(values) - SumOf(values) * SumOf(values), n * (n - 1)>>

\* get_metric_stats
GetMetricStats_ZeroFilled(ms, name, duration_minutes, t) ==
    LET history == GetMetricHistory(ms, name, duration_minutes, t)
        values == [i \in 1..Len(history) |-> history[i].value]
    IN  IF history = <<>>
        THEN [count |-> 0, min |-> 0, max |-> 0, avg |-> <<0, 1>>, median |-> <<0, 1>>,
              std |-> <<0, 1>>]
        ELSE [count |-> Len(values), min |-> MinOf(values), max |-> MaxOf(values),
              avg |-> Mean(values), median |-> Median(values),
              std |-> IF Len(values) > 1 THEN Variance(values) ELSE <<0, 1>>]

GetMetricStats(ms, name, duration_minutes, t) ==
    LET history == GetMetricHistory(ms, name, duration_minutes, t)
        values == [i \in 1..Len(history) |-> history[i].value]
    IN  IF history = <<>> THEN NoData
        ELSE [count |-> Len(values), min |-> MinOf(values), max |-> MaxOf(values),
              avg |-> Mean(values), median |-> Median(values),
              std |-> IF Len(values) > 1 THEN Variance(values) ELSE <<0, 1>>]

MEvent(op, name, window, history, stats) ==
    [op |-> op, name |-> name, window |-> window, history |-> history, stats |-> stats]

InitMetrics ==
    /\ IdleMetrics
    /\ IdleAlerts
    /\ IdleHealth
    /\ IdleBreaker
    /\ IdleRetry
    /\ IdleTicket

\* record_metric(name, value)
RecordMetric(name, value) ==
    /\ metrics' = Recorded(metrics, retention_hours, name, value, mnow)
    /\ recorded' = Put(recorded, name, Append(Get(recorded, name, <<>>),
                                              Metric(name, value, mnow)))
    /\ m_event' = MEvent("record", name, 0, <<>>, NoData)
    /\ UNCHANGED <<retention_hours, mnow>>

\* get_metric_history(name, window)
QueryHistory(name, window) ==
    /\ m_event' = MEvent("history", name, window,
                         GetMetricHistory(metrics, name, window, mnow), NoData)
    /\ UNCHANGED <<retention_hours, metrics, mnow, recorded>>

\* get_metric_stats(name, window)
QueryStats(name, window) ==
    /\ m_event' = MEvent("stats", name, window, <<>>,
                         GetMetricStats(metrics, name, window, mnow))
    /\ UNCHANGED <<retention_hours, metrics, mnow, recorded>>

\* a minute passes
TickMinute ==
    /\ mnow < MaxMinute
    /\ mnow' = mnow + 1
    /\ m_event' = MEvent("tick", "", 0, <<>>, NoData)
    /\ UNCHANGED <<retention_hours, metrics, recorded>>

\* the number of record_metric calls so far
Samples ==
    Cardinality(UNION {{<<n, i>> : i \in 1..Len(recorded[n])} : n \in DOMAIN recorded})

NextMetrics ==
    \/ \E n \in RecordNames, v \in Values :
          Samples < MaxSamples /\ RecordMetric(n, v)
            /\ UNCHANGED <<alertVars, healthVars, thrVars, loopVars, nonMonVars>>
    \/ \E n \in QueryNames, w \in Windows :
          QueryHistory(n, w) /\ UNCHANGED <<alertVars, healthVars, thrVars, loopVars, nonMonVars>>
    \/ \E n \in QueryNames, w \in Windows :
          QueryStats(n, w) /\ UNCHANGED <<alertVars, healthVars, thrVars, loopVars, nonMonVars>>
    \/ TickMinute /\ UNCHANGED <<alertVars, healthVars, thrVars, loopVars, nonMonVars>>

SpecMetrics == InitMetrics /\ [][NextMetrics]_vars

-----------------------------------------------------------------------------
(* Claims about the collector's queries, checked under SpecMetrics *)

\* the positions of the stored samples of a name that lie in the window of the
\* query just made
InWindowOf(ev) ==
    {i \in 1..Len(Get(metrics, ev.name, <<>>)) :
        metrics[ev.name][i].timestamp >= mnow - ev.window}

\* C15: stats(name, window) returns the empty "no data" result exactly when no
\* stored sample of the name has timestamp >= now - window, also for a name never
\* recorded; any other result carries the numeric fields and a count of at least
\* one, so an empty window never yields zero-valued aggregates.
C15_EmptyWindowIsNoData ==
    m_event.op = "stats" =>
      /\ (DOMAIN m_event.stats = {}) <=> (InWindowOf(m_event) = {})
      /\ DOMAIN m_event.stats # {} =>
            /\ DOMAIN m_event.stats = {"count", "min", "max", "avg", "median", "std"}
            /\ m_event.stats.count >= 1

C15_Witness ==
    /\ m_event.op = "stats"
    /\ m_event.name = "test_metric"
    /\ m_event.window = 1
    /\ "test_metric" \in DOMAIN metrics
    /\ Len(metrics["test_metric"]) = 2
    /\ mnow = 2
    /\ DOMAIN m_event.stats = {}

RECURSIVE SumOver(_, _)
SumOver(I, series) ==
    IF I = {} THEN 0
    ELSE LET i == CHOOSE j \in I : TRUE IN series[i].value + SumOver(I \ {i}, series)

\* C16: for a non-empty window, stats(name, window) gives the count, minimum,
\* maximum, average and a median of exactly the samples with timestamp >= now -
\* window; when these samples are 10, 20 and 30 it gives count 3, min 10, max 30,
\* avg 20 and standard deviation 10.
C16_StatsOverWindow ==
    (m_event.op = "stats" /\ InWindowOf(m_event) # {}) =>
      LET I == InWindowOf(m_event)
          series == metrics[m_event.name]
          st == m_event.stats
          Below == {i \in I : series[i].value * st.median[2] < st.median[1]}
          Above == {i \in I : series[i].value * st.median[2] > st.median[1]}
      IN  /\ st.count = Cardinality(I)
          /\ \E i \in I : series[i].value = st.min
          /\ \A i \in I : series[i].value >= st.min
          /\ \E i \in I : series[i].value = st.max
          /\ \A i \in I : series[i].value <= st.max
          /\ st.avg[1] = SumOver(I, series) /\ st.avg[2] = Cardinality(I)
          /\ 2 * Cardinality(Below) <= Cardinality(I)
          /\ 2 * Cardinality(Above) <= Cardinality(I)
          /\ (Cardinality(I) = 3 /\ {series[i].value : i \in I} = {10, 20, 30}) =>
                /\ st.count = 3 /\ st.min = 10 /\ st.max = 30
                /\ st.avg[1] = 20 * st.avg[2]
                /\ st.median[1] = 20 * st.median[2]
                /\ st.std[1] = 10 * 10 * st.std[2]

C16_Witness ==
    /\ m_event.op = "stats"
    /\ m_event.window = 1
    /\ mnow = 2
    /\ "test_metric" \in DOMAIN metrics
    /\ Len(metrics["test_metric"]) = 4
    /\ metrics["test_metric"][1].timestamp = 0
    /\ [i \in 1..3 |-> metrics["test_metric"][i + 1].value] = <<30, 10, 20>>
    /\ DOMAIN m_event.stats # {}
    /\ m_event.stats.count = 3
    /\ m_event.stats.std = <<600, 6>>

-----------------------------------------------------------------------------
(* The collector filled beyond its retention (specification SpecRetention): the
   i-th record_metric call records the value i, so that every sample can be told
   from every other. *)

RetentionHours == {0, 1}
RetentionWindows == {0}

InitRetention ==
    /\ IdleThreads
    /\ retention_hours \in RetentionHours
    /\ metrics = EmptyDict
    /\ mnow = 0
    /\ recorded = EmptyDict
    /\ m_event = MEvent("init", "", 0, <<>>, NoData)
    /\ IdleAlerts
    /\ IdleHealth
    /\ IdleBreaker
    /\ IdleRetry
    /\ IdleTicket

NextRetention ==
    \/ \E n \in RecordNames :
          Samples < MaxRecords /\ RecordMetric(n, Samples + 1)
            /\ UNCHANGED <<alertVars, healthVars, thrVars, loopVars, nonMonVars>>
    \/ \E n \in QueryNames, w \in RetentionWindows :
          QueryHistory(n, w) /\ UNCHANGED <<alertVars, healthVars, thrVars, loopVars, nonMonVars>>
    \/ mnow < MaxRetentionMinute /\ TickMinute
          /\ UNCHANGED <<alertVars, healthVars, thrVars, loopVars, nonMonVars>>

SpecRetention == InitRetention /\ [][NextRetention]_vars

\* C17: every name's stored sequence holds at most retention_hours * 60 samples and
\* is the tail of what was recorded under the name, in the order of the calls (so
\* the samples dropped are the oldest, and the timestamps never decrease);
\* history(name, window) returns, in that order, the stored samples with timestamp
\* >= now - window; and a query of an unrecorded name returns the empty list and
\* creates no series.
C17_BoundedOrderedSeries ==
    /\ DOMAIN metrics = DOMAIN recorded
    /\ \A n \in DOMAIN metrics :
          LET kept == Len(metrics[n])
              all == Len(recorded[n])
          IN  /\ kept <= retention_hours * 60
              /\ kept = IF all <= retention_hours * 60 THEN all ELSE retention_hours * 60
              /\ \A i \in 1..kept : metrics[n][i] = recorded[n][all - kept + i]
              /\ \A i \in 1..(kept - 1) :
                    metrics[n][i].timestamp <= metrics[n][i + 1].timestamp
    /\ m_event.op = "history" =>
          LET I == InWindowOf(m_event)
              h == m_event.history
              series == Get(metrics, m_event.name, <<>>)
          IN  /\ Len(h) = Cardinality(I)
              /\ \A j \in 1..Len(h) : h[j] = series[Len(series) - Len(h) + j]
              /\ \A j \in 1..Len(h) : h[j].timestamp >= mnow - m_event.window
              /\ m_event.name \notin DOMAIN recorded => h = <<>>

C17_Witness ==
    /\ m_event.op = "history"
    /\ m_event.name = "test_metric"
    /\ "test_metric" \in DOMAIN metrics
    /\ Len(recorded["test_metric"]) = 61
    /\ Len(metrics["test_metric"]) = 60
    /\ metrics["test_metric"][1].value = 2
    /\ Len(m_event.history) = 7

-----------------------------------------------------------------------------
(* The collector called from several threads (specification SpecThreads). The
   body of a 'with self._lock' block is not one step of the interpreter:
   record_metric looks the series up and then appends to it, get_metric_history
   walks the series element by element, and a thread switch can fall between any
   two of these steps. get_metric_stats computes on the list get_metric_history
   returned, after the lock is released. *)

\* threading.Lock.acquire: can a thread enter the block when the lock is `lock`
CanAcquire_NoLock(lock) == TRUE

CanAcquire(lock) == lock = 0

ThreadOps == {"record", "history", "stats"}
ThreadWindows == {0, 60}
ThreadValues == {10}

\* the record_metric calls that have started
ThreadRecords ==
    Cardinality({t \in Threads : m_threads[t].op = "record"})
      + Cardinality(UNION {{<<n, i>> : i \in 1..Len(recorded[n])} : n \in DOMAIN recorded})

\* a thread calls record_metric, get_metric_history or get_metric_stats and
\* arrives at 'with self._lock'
ThreadCall(t, op, name, value, window) ==
    /\ m_threads[t].pc = "idle"
    /\ op = "record" => ThreadRecords < MaxThreadRecords
    /\ m_threads' = [m_threads EXCEPT ![t] =
                       [IdleThread EXCEPT !.pc = "waiting", !.op = op, !.name = name,
                                          !.value = IF op = "record" THEN value ELSE 0,
                                          !.window = IF op = "record" THEN 0 ELSE window]]
    /\ m_event' = MEvent("call", name, 0, <<>>, NoData)
    /\ UNCHANGED <<retention_hours, metrics, mnow, recorded, m_lock>>

\* the thread enters the block: record_metric builds the Metric and looks up
\* self.metrics[name]; get_metric_history computes cutoff_time and starts the
\* list comprehension (for a name that has no series it returns [] at once)
ThreadAcquire(t) ==
    LET th == m_threads[t]
        series == Get(metrics, th.name, <<>>)
    IN  /\ th.pc = "waiting"
        /\ CanAcquire(m_lock)
        /\ m_lock' = t
        /\ m_threads' = [m_threads EXCEPT ![t] =
              IF th.op = "record"
              THEN [th EXCEPT !.pc = "appending", !.timestamp = mnow, !.series = series]
              ELSE [th EXCEPT !.pc = "scanning", !.cutoff_time = mnow - th.window,
                              !.idx = 1, !.snapshot = series]]
        /\ m_event' = MEvent("acquire", th.name, 0, <<>>, NoData)
        /\ UNCHANGED <<retention_hours, metrics, mnow, recorded>>

\* the end of a 'with self._lock' block
Released(t) == IF m_lock = t THEN 0 ELSE m_lock

\* record_metric: the append to the series it looked up, and the end of the block
ThreadAppend(t) ==
    LET th == m_threads[t]
        metric == Metric(th.name, th.value, th.timestamp)
    IN  /\ th.pc = "appending"
        /\ metrics' = Put(metrics, th.name,
                          DequeAppend(th.series, MaxLen(retention_hours), metric))
        /\ recorded' = Put(recorded, th.name, Append(Get(recorded, th.name, <<>>), metric))
        /\ m_lock' = Released(t)
        /\ m_threads' = [m_threads EXCEPT ![t] = IdleThread]
        /\ m_event' = MEvent("record", th.name, 0, <<>>, NoData)
        /\ UNCHANGED <<retention_hours, mnow>>

\* get_metric_history: one element of the list comprehension, or its end, the end
\* of the block and the return of the list
ThreadScan(t) ==
    LET th == m_threads[t]
        series == Get(metrics, th.name, <<>>)
    IN  /\ th.pc = "scanning"
        /\ IF th.idx <= Len(series)
           THEN /\ m_threads' = [m_threads EXCEPT ![t] =
                      [th EXCEPT !.idx = th.idx + 1,
                                 !.history = IF series[th.idx].timestamp >= th.cutoff_time
                                             THEN Append(th.history, series[th.idx])
                                             ELSE th.history]]
                /\ m_event' = MEvent("scan", th.name, th.window, <<>>, NoData)
                /\ UNCHANGED m_lock
           ELSE /\ m_lock' = Released(t)
                /\ m_threads' = [m_threads EXCEPT ![t] =
                      IF th.op = "stats" THEN [th EXCEPT !.pc = "computing"]
                      ELSE IdleThread]
                /\ m_event' = MEvent(IF th.op = "stats" THEN "scanned" ELSE "history",
                                     th.name, th.window, th.history, NoData)
        /\ UNCHANGED <<retention_hours, metrics, mnow, recorded>>

\* get_metric_stats: the statistics of the list get_metric_history returned
ThreadStats(t) ==
    LET th == m_threads[t]
    IN  /\ th.pc = "computing"
        /\ m_threads' = [m_threads EXCEPT ![t] = IdleThread]
        /\ m_event' = MEvent("stats", th.name, th.window, <<>>,
                             GetMetricStats(th.name :> th.history, th.name, th.window,
                                            th.cutoff_time + th.window))
        /\ UNCHANGED <<retention_hours, metrics, mnow, recorded, m_lock>>

\* a minute passes
ThreadTick ==
    /\ mnow < MaxThreadMinute
    /\ mnow' = mnow + 1
    /\ m_event' = MEvent("tick", "", 0, <<>>, NoData)
    /\ UNCHANGED <<retention_hours, metrics, recorded, m_lock, m_threads>>

NextThreads ==
    \/ \E t \in Threads, op \in ThreadOps, n \in RecordNames, v \in ThreadValues,
           w \in ThreadWindows :
          ThreadCall(t, op, n, v, w) /\ UNCHANGED <<alertVars, healthVars, loopVars, nonMonVars>>
    \/ \E t \in Threads : ThreadAcquire(t) /\ UNCHANGED <<alertVars, healthVars, loopVars, nonMonVars>>
    \/ \E t \in Threads : ThreadAppend(t) /\ UNCHANGED <<alertVars, healthVars, loopVars, nonMonVars>>
    \/ \E t \in Threads : ThreadScan(t) /\ UNCHANGED <<alertVars, healthVars, loopVars, nonMonVars>>
    \/ \E t \in Threads : ThreadStats(t) /\ UNCHANGED <<alertVars, healthVars, loopVars, nonMonVars>>
    \/ ThreadTick /\ UNCHANGED <<alertVars, healthVars, loopVars, nonMonVars>>

SpecThreads == InitMetrics /\ [][NextThreads]_vars

\* C26: under any interleaving of concurrent record, history and stats calls no
\* sample is lost or duplicated: the series of a name holds, in the order of the
\* calls, exactly the samples recorded for it (their number is below the
\* capacity); and the list a history call returns is the part inside its window
\* of the series as it was at one instant, the one when the call took the lock.
C26_NoLostSampleAndSnapshots ==
    [][ /\ \A n \in DOMAIN recorded' :
             /\ n \in DOMAIN metrics'
             /\ metrics'[n] = recorded'[n]
        /\ DOMAIN metrics' \subseteq DOMAIN recorded'
        /\ \A t \in Threads :
             (m_threads[t].pc = "scanning" /\ m_threads'[t].pc # "scanning")
               => m_event'.history =
                    GetMetricHistory(m_threads[t].name :> m_threads[t].snapshot,
                                     m_threads[t].name, m_threads[t].window,
                                     m_threads[t].cutoff_time + m_threads[t].window) ]_vars

\* a history call returns two samples while the other thread, which called
\* record_metric during the walk, still waits for the lock
C26_Witness ==
    /\ m_event.op = "history"
    /\ Len(m_event.history) = 2
    /\ \E t \in Threads : m_threads[t].op = "record" /\ m_threads[t].pc = "waiting"
    /\ "test_metric" \in DOMAIN metrics
    /\ Len(metrics["test_metric"]) = 2

-----------------------------------------------------------------------------
(* AlertManager and its rules (specification SpecAlerts). _check_alerts runs in
   the monitoring thread; record_metric calls of other threads and the clock can
   come between the evaluations of two rules, so a step of the model is one
   iteration of the loop over the rules. *)

\* the rules of the model: two threshold rules on one metric, around a rule of
\* the base class, whose evaluate raises NotImplementedError
Rules ==
    << [class |-> "ThresholdAlertRule", name |-> "high_cpu_usage",
        metric_name |-> "system_cpu_usage", threshold |-> 80, comparison |-> "greater",
        duration_minutes |-> 1, level |-> "warning"],
       [class |-> "AlertRule", name |-> "custom_rule",
        metric_name |-> "system_cpu_usage", level |-> "warning"],
       [class |-> "ThresholdAlertRule", name |-> "cpu_at_limit",
        metric_name |-> "system_cpu_usage", threshold |-> 80, comparison |-> "equal",
        duration_minutes |-> 1, level |-> "critical"] >>
Handlers == <<"pager", "mail">>
AlertValues == {80, 90}
AlertNames == {"system_cpu_usage"}

\* alert_key = f"{rule.name}_{rule.metric_name}"
AlertKey(rule) == rule.name \o "_" \o rule.metric_name

\* rule.evaluate(metrics_collector) at time t: did it raise, and what it returned
Evaluate_GreaterOrEqual(rule, ms, t) ==
    IF rule.class = "AlertRule" THEN [raised |-> TRUE, value |-> FALSE]
    ELSE LET stats == GetMetricStats(ms, rule.metric_name, rule.duration_minutes, t)
         IN  IF DOMAIN stats = {} THEN [raised |-> FALSE, value |-> FALSE]
             ELSE LET current_value == stats.avg
                      scaled == rule.threshold * current_value[2]
                      diff == current_value[1] - scaled
                  IN  [raised |-> FALSE,
                       value |-> CASE rule.comparison = "greater" -> current_value[1] >= scaled
                                   [] rule.comparison = "less" -> current_value[1] < scaled
                                   [] rule.comparison = "equal" ->
                                        (IF diff >= 0 THEN diff ELSE -diff) * 1000
                                          < current_value[2]
                                   [] OTHER -> FALSE]

Evaluate(rule, ms, t) ==
    IF rule.class = "AlertRule" THEN [raised |-> TRUE, value |-> FALSE]
    ELSE LET stats == GetMetricStats(ms, rule.metric_name, rule.duration_minutes, t)
         IN  IF DOMAIN stats = {} THEN [raised |-> FALSE, value |-> FALSE]
             ELSE LET current_value == stats.avg
                      scaled == rule.threshold * current_value[2]
                      diff == current_value[1] - scaled
                  IN  [raised |-> FALSE,
                       value |-> CASE rule.comparison = "greater" -> current_value[1] > scaled
                                   [] rule.comparison = "less" -> current_value[1] < scaled
                                   [] rule.comparison = "equal" ->
                                        (IF diff >= 0 THEN diff ELSE -diff) * 1000
                                          < current_value[2]
                                   [] OTHER -> FALSE]

\* rule.get_message(metrics_collector): the average it prints, 0 without data
GetMessage(rule, ms, t) ==
    IF rule.class = "AlertRule" THEN <<0, 1>>
    ELSE LET stats == GetMetricStats(ms, rule.metric_name, rule.duration_minutes, t)
         IN  IF DOMAIN stats = {} THEN <<0, 1>> ELSE stats.avg

\* _check_alerts: the two branches
ShouldFire_NoDedup(should_alert, alert_key, alerts) == should_alert

ShouldFire(should_alert, alert_key, alerts) ==
    should_alert /\ alert_key \notin DOMAIN alerts

ShouldResolve(should_alert, alert_key, alerts) ==
    ~should_alert /\ alert_key \in DOMAIN alerts

\* _fire_alert: the handlers it invokes, by position, when outcomes[j] is what
\* the j-th handler does ("ok" or "raises")
RECURSIVE UpToFirstError(_, _)
UpToFirstError(outcomes, j) ==
    IF j > Len(outcomes) THEN <<>>
    ELSE IF outcomes[j] = "raises" THEN <<j>>
    ELSE <<j>> \o UpToFirstError(outcomes, j + 1)

HandlersInvoked_StopAtError(handlers, outcomes) == UpToFirstError(outcomes, 1)

HandlersInvoked(handlers, outcomes) == [j \in 1..Len(handlers) |-> j]

\* the loop over the rules: the index evaluated after rule i of n
NextRuleIdx(i, n) == IF i = n THEN 1 ELSE i + 1

\* _resolve_alert sets resolved on the Alert object, which alert_history holds too
Resolved_ActiveOnly(history, alert) == history

Resolved(history, alert) ==
    [j \in 1..Len(history) |->
        IF history[j] = alert THEN [history[j] EXCEPT !.resolved = TRUE] ELSE history[j]]

AEvent(op, i, key, ev, fired, resolved, invoked, outcomes) ==
    [op |-> op, rule |-> i, key |-> key, raised |-> ev.raised, value |-> ev.value,
     fired |-> fired, resolved |-> resolved, invoked |-> invoked, outcomes |-> outcomes]

NoEvaluation == [raised |-> FALSE, value |-> FALSE]

InitAlerts ==
    /\ IdleLoop
    /\ IdleMetrics
    /\ alert_rules = Rules
    /\ notification_handlers = Handlers
    /\ active_alerts = EmptyDict
    /\ alert_history = <<>>
    /\ rule_idx = 1
    /\ last_eval = EmptyDict
    /\ rule_eval = [i \in 1..Len(Rules) |-> FALSE]
    /\ a_event = AEvent("init", 0, "", NoEvaluation, FALSE, FALSE, <<>>, <<>>)
    /\ IdleHealth
    /\ IdleBreaker
    /\ IdleRetry
    /\ IdleTicket

\* one iteration of the loop of _check_alerts, on the rule at rule_idx
CheckRule(outcomes) ==
    LET i == rule_idx
        rule == alert_rules[i]
        ev == Evaluate(rule, metrics, mnow)
        alert_key == AlertKey(rule)
        alert == [name |-> rule.name, level |-> rule.level,
                  message |-> GetMessage(rule, metrics, mnow), timestamp |-> mnow,
                  source |-> "pipeline_monitor", resolved |-> FALSE]
        fires == ~ev.raised /\ ShouldFire(ev.value, alert_key, active_alerts)
        resolves == ~ev.raised /\ ~fires /\ ShouldResolve(ev.value, alert_key, active_alerts)
    IN  /\ fires \/ outcomes = [j \in 1..Len(notification_handlers) |-> "ok"]
        /\ active_alerts' =
             IF fires THEN Put(active_alerts, alert_key, alert)
             ELSE IF resolves THEN Delete(active_alerts, alert_key)
             ELSE active_alerts
        /\ alert_history' =
             IF fires THEN DequeAppend(alert_history, AlertHistoryLimit, alert)
             ELSE IF resolves THEN Resolved(alert_history, active_alerts[alert_key])
             ELSE alert_history
        /\ rule_idx' = NextRuleIdx(i, Len(alert_rules))
        /\ last_eval' = IF ev.raised THEN last_eval ELSE Put(last_eval, alert_key, ev.value)
        /\ rule_eval' = IF ev.raised THEN rule_eval ELSE [rule_eval EXCEPT ![i] = ev.value]
        /\ a_event' = AEvent("check", i, alert_key, ev, fires, resolves,
                             IF fires THEN HandlersInvoked(notification_handlers, outcomes)
                             ELSE <<>>,
                             IF fires THEN outcomes ELSE <<>>)
        /\ UNCHANGED <<alert_rules, notification_handlers>>
        /\ UNCHANGED <<metVars, healthVars, thrVars, loopVars, nonMonVars>>

\* steps of other threads, seen from the alert manager
AlertIdle(op) ==
    /\ a_event' = AEvent(op, 0, "", NoEvaluation, FALSE, FALSE, <<>>, <<>>)
    /\ UNCHANGED <<alert_rules, notification_handlers, active_alerts, alert_history,
                   rule_idx, last_eval, rule_eval>>
    /\ UNCHANGED <<healthVars, thrVars, loopVars, nonMonVars>>

NextAlerts ==
    \/ \E outcomes \in [1..Len(Handlers) -> {"ok", "raises"}] : CheckRule(outcomes)
    \/ \E n \in AlertNames, v \in AlertValues :
          Samples < MaxAlertSamples /\ RecordMetric(n, v) /\ AlertIdle("record")
    \/ TickMinute /\ AlertIdle("tick")

SpecAlerts == InitAlerts /\ [][NextAlerts]_vars

-----------------------------------------------------------------------------
(* Claims about the alert manager, checked under SpecAlerts *)

AllHandlers == [j \in 1..Len(notification_handlers) |-> j]

\* C12: when the evaluation of a rule returns true and the previous evaluation
\* of the rule (none counts as false) did not, every registered handler is invoked
\* once, in order; when it returns true again, or returns false, no handler is
\* invoked; so the handlers are invoked again only after an evaluation that
\* returned false.
C12_OneNotificationPerTransition ==
    [][ (a_event'.op = "check" /\ ~a_event'.raised) =>
          LET was == Get(last_eval, a_event'.key, FALSE)
              is == a_event'.value
          IN  /\ (is /\ ~was) => a_event'.invoked = AllHandlers
              /\ ~(is /\ ~was) => a_event'.invoked = <<>>
              /\ (a_event'.key \in DOMAIN active_alerts') <=> is ]_vars

C12_Witness ==
    /\ a_event.op = "check"
    /\ a_event.rule = 1
    /\ a_event.fired
    /\ a_event.invoked = <<1, 2>>
    /\ Len(alert_history) = 2
    /\ alert_history[1].name = "high_cpu_usage"
    /\ alert_history[1].resolved
    /\ alert_history[2].name = "high_cpu_usage"

\* C13: a threshold rule whose metric has no sample in its window evaluates to
\* false without raising; with samples in the window and comparison "greater" it
\* evaluates to true exactly when their average exceeds the threshold.
C13_ThresholdEvaluation ==
    (a_event.op = "check" /\ alert_rules[a_event.rule].class = "ThresholdAlertRule") =>
      LET rule == alert_rules[a_event.rule]
          series == Get(metrics, rule.metric_name, <<>>)
          I == {i \in 1..Len(series) : series[i].timestamp >= mnow - rule.duration_minutes}
      IN  /\ ~a_event.raised
          /\ I = {} => ~a_event.value
          /\ (I # {} /\ rule.comparison = "greater") =>
                (a_event.value <=> SumOver(I, series) > rule.threshold * Cardinality(I))

C13_Witness ==
    /\ a_event.op = "check"
    /\ a_event.rule = 1
    /\ ~a_event.value
    /\ "system_cpu_usage" \in DOMAIN metrics
    /\ Len(metrics["system_cpu_usage"]) = 2
    /\ metrics["system_cpu_usage"][1].value = 90
    /\ metrics["system_cpu_usage"][1].timestamp = 0
    /\ metrics["system_cpu_usage"][2].value = 80
    /\ metrics["system_cpu_usage"][2].timestamp = 1
    /\ mnow = 2

\* C14: an exception of a handler does not keep the later handlers of the alert
\* from being invoked, and the alert is recorded as active all the same; an
\* exception of a handler or of a rule's evaluation does not end the pass: the
\* next rule of the list is evaluated next; and a rule whose alert is active is
\* not notified again by a true evaluation.
C14_ErrorsDoNotStopThePass ==
    [][ a_event'.op = "check" =>
          /\ a_event'.fired =>
                /\ a_event'.invoked = AllHandlers
                /\ a_event'.key \in DOMAIN active_alerts'
          /\ rule_idx' = (IF a_event'.rule = Len(alert_rules) THEN 1 ELSE a_event'.rule + 1)
          /\ a_event'.rule = rule_idx
          /\ (a_event'.key \in DOMAIN active_alerts /\ ~a_event'.raised /\ a_event'.value)
                => a_event'.invoked = <<>> ]_vars

C14_Witness ==
    /\ a_event.op = "check"
    /\ a_event.rule = 3
    /\ a_event.fired
    /\ a_event.outcomes = <<"raises", "ok">>
    /\ a_event.invoked = <<1, 2>>
    /\ "cpu_at_limit_system_cpu_usage" \in DOMAIN active_alerts

-----------------------------------------------------------------------------
(* The alert manager over several rule lists (specification SpecRuleLists):
   add_alert_rule appends whatever rule it is given, so a list can hold two rules
   of one name and metric, which share their alert key. *)

\* two threshold rules of one name on one metric, with different thresholds
DuplicateRules ==
    << [class |-> "ThresholdAlertRule", name |-> "high_cpu_usage",
        metric_name |-> "system_cpu_usage", threshold |-> 80, comparison |-> "greater",
        duration_minutes |-> 1, level |-> "warning"],
       [class |-> "ThresholdAlertRule", name |-> "high_cpu_usage",
        metric_name |-> "system_cpu_usage", threshold |-> 85, comparison |-> "greater",
        duration_minutes |-> 1, level |-> "critical"] >>

RuleLists == {Rules, DuplicateRules}

InitRuleLists ==
    /\ IdleLoop
    /\ IdleMetrics
    /\ alert_rules \in RuleLists
    /\ notification_handlers = Handlers
    /\ active_alerts = EmptyDict
    /\ alert_history = <<>>
    /\ rule_idx = 1
    /\ last_eval = EmptyDict
    /\ rule_eval = [i \in 1..Len(alert_rules) |-> FALSE]
    /\ a_event = AEvent("init", 0, "", NoEvaluation, FALSE, FALSE, <<>>, <<>>)
    /\ IdleHealth
    /\ IdleBreaker
    /\ IdleRetry
    /\ IdleTicket

\* the steps of SpecAlerts, until MaxFired alerts are in the history
NextRuleLists ==
    \/ \E outcomes \in [1..Len(Handlers) -> {"ok", "raises"}] :
          Len(alert_history) < MaxFired /\ CheckRule(outcomes)
    \/ \E n \in AlertNames, v \in AlertValues :
          Samples < MaxAlertSamples /\ RecordMetric(n, v) /\ AlertIdle("record")
    \/ TickMinute /\ AlertIdle("tick")

SpecRuleLists == InitRuleLists /\ [][NextRuleLists]_vars

\* the step just taken ended an evaluation pass
PassCompleted == a_event'.op = "check" /\ a_event'.rule = Len(alert_rules)

\* C27: after every completed evaluation pass the active set holds a key exactly
\* when the latest evaluation made for that key returned true, no active alert is
\* resolved, every active alert is in the history, and the history holds at most
\* one unresolved alert per name; and when an evaluation that returned false
\* removes an alert, that alert is resolved in the history too.
C27_ActiveSetInvariants ==
    [][ /\ PassCompleted =>
             /\ \A i \in 1..Len(alert_rules) :
                  LET key == AlertKey(alert_rules[i])
                  IN  key \in DOMAIN active_alerts' <=> Get(last_eval', key, FALSE)
             /\ \A key \in DOMAIN active_alerts' :
                  /\ ~active_alerts'[key].resolved
                  /\ \E j \in 1..Len(alert_history') :
                        alert_history'[j] = active_alerts'[key]
             /\ \A j1 \in 1..Len(alert_history') : \A j2 \in 1..Len(alert_history') :
                  (/\ ~alert_history'[j1].resolved
                   /\ ~alert_history'[j2].resolved
                   /\ alert_history'[j1].name = alert_history'[j2].name) => j1 = j2
        /\ (a_event'.op = "check" /\ a_event'.resolved) =>
             /\ ~a_event'.value
             /\ a_event'.key \in DOMAIN active_alerts
             /\ a_event'.key \notin DOMAIN active_alerts'
             /\ \E j \in 1..Len(alert_history) :
                   alert_history[j] = active_alerts[a_event'.key]
             /\ \A j \in 1..Len(alert_history) :
                   alert_history[j] = active_alerts[a_event'.key]
                     => alert_history'[j].resolved ]_vars

\* the last rule of the list has just resolved its alert while the alert of the
\* first rule is active
C27_Witness ==
    /\ a_event.op = "check"
    /\ a_event.rule = 3
    /\ a_event.resolved
    /\ alert_rules = Rules
    /\ DOMAIN active_alerts = {"high_cpu_usage_system_cpu_usage"}
    /\ Len(alert_history) = 2
    /\ alert_history[1].name = "cpu_at_limit"
    /\ alert_history[1].resolved
    /\ ~alert_history[2].resolved

\* C28: for any list of registered rules, a rule whose evaluation returned true in
\* the previous pass and returns true again causes no notification.
C28_NoNotificationOnSecondPass ==
    [][ (/\ a_event'.op = "check"
         /\ ~a_event'.raised
         /\ a_event'.value
         /\ rule_eval[a_event'.rule])
          => a_event'.invoked = <<>> ]_vars

-----------------------------------------------------------------------------
(* HealthChecker (specification SpecHealth). time.time() is far above every
   interval when the first run is made: the clock starts at StartTime. *)

\* the registered probes, in the order of their registration, and their intervals
\* in minutes (120 s, and the default of 60 s)
ProbeOrder == <<"jira", "storage">>
ProbeIntervals == [jira |-> 2, storage |-> 1]
ProbeOutcomes == {"healthy", "unhealthy", "raises"}

\* register_health_check
Registered(checks, name, interval) ==
    Put(checks, name, [interval |-> interval, last_check |-> 0])

\* run_health_checks: is the probe invoked by a run at current_time
IsDue(check_config, current_time) ==
    current_time - check_config.last_check >= check_config.interval

\* run_health_checks: the entry of results for a probe, invoked with the outcome or not
ProbeResult_RaiseKeepsCached(cached, name, due, outcome, t) ==
    IF due /\ outcome # "raises"
    THEN [healthy |-> outcome = "healthy", last_check |-> t, error |-> "None"]
    ELSE Get(cached, name, [healthy |-> FALSE, error |-> "Not yet checked"])

ProbeResult(cached, name, due, outcome, t) ==
    IF due
    THEN IF outcome = "raises"
         THEN [healthy |-> FALSE, last_check |-> t, error |-> "raised"]
         ELSE [healthy |-> outcome = "healthy", last_check |-> t, error |-> "None"]
    ELSE Get(cached, name, [healthy |-> FALSE, error |-> "Not yet checked"])

\* run_health_checks: last_check of a probe after the run
LastCheckAfter(check_config, due, outcome, current_time) ==
    IF due /\ outcome # "raises" THEN current_time ELSE check_config.last_check

\* run_health_checks: the value it records for an invoked probe
HealthValue(outcome) == IF outcome = "healthy" THEN 1 ELSE 0

\* the record_metric calls of one run, for the probes from position j on
RECURSIVE HealthRecorded(_, _, _, _)
HealthRecorded(ms, checks, outcomes, j) ==
    IF j > Len(ProbeOrder) THEN ms
    ELSE LET name == ProbeOrder[j]
         IN  HealthRecorded(
               IF name \in DOMAIN checks /\ IsDue(checks[name], mnow)
               THEN Recorded(ms, retention_hours, "health_check_" \o name,
                             HealthValue(outcomes[name]), mnow)
               ELSE ms,
               checks, outcomes, j + 1)

RECURSIVE HealthLogged(_, _, _, _)
HealthLogged(log, checks, outcomes, j) ==
    IF j > Len(ProbeOrder) THEN log
    ELSE LET name == ProbeOrder[j]
             metric == "health_check_" \o name
         IN  HealthLogged(
               IF name \in DOMAIN checks /\ IsDue(checks[name], mnow)
               THEN Put(log, metric,
                        Append(Get(log, metric, <<>>),
                               Metric(metric, HealthValue(outcomes[name]), mnow)))
               ELSE log,
               checks, outcomes, j + 1)

InitHealth ==
    /\ IdleThreads
    /\ retention_hours = DefaultRetentionHours
    /\ metrics = EmptyDict
    /\ mnow = StartTime
    /\ recorded = EmptyDict
    /\ m_event = MEvent("init", "", 0, <<>>, NoData)
    /\ health_checks =
         Registered(Registered(EmptyDict, ProbeOrder[1], ProbeIntervals[ProbeOrder[1]]),
                    ProbeOrder[2], ProbeIntervals[ProbeOrder[2]])
    /\ last_check_results = EmptyDict
    /\ last_invoked = [n \in DOMAIN ProbeIntervals |-> NoTime]
    /\ h_event = [op |-> "init", invoked |-> {}, results |-> EmptyDict,
                  outcomes |-> EmptyDict]
    /\ h_running = ""
    /\ IdleAlerts
    /\ IdleBreaker
    /\ IdleRetry
    /\ IdleTicket

\* run_health_checks(), outcomes[n] being what the function of probe n does if invoked
RunHealthChecks(outcomes) ==
    LET current_time == mnow
        due == {n \in DOMAIN health_checks : IsDue(health_checks[n], current_time)}
        results == [n \in DOMAIN health_checks |->
                      ProbeResult(last_check_results, n, n \in due, outcomes[n], mnow)]
    IN  /\ h_running = ""
        /\ \A n \in DOMAIN health_checks \ due : outcomes[n] = "healthy"
        /\ health_checks' = [n \in DOMAIN health_checks |->
              [health_checks[n] EXCEPT
                 !.last_check = LastCheckAfter(health_checks[n], n \in due, outcomes[n],
                                               current_time)]]
        /\ last_check_results' = results
        /\ last_invoked' = [n \in DOMAIN last_invoked |->
                              IF n \in due THEN mnow ELSE last_invoked[n]]
        /\ metrics' = HealthRecorded(metrics, health_checks, outcomes, 1)
        /\ recorded' = HealthLogged(recorded, health_checks, outcomes, 1)
        /\ m_event' = IF due = {} THEN m_event ELSE MEvent("record", "health_check", 0, <<>>, NoData)
        /\ h_event' = [op |-> "run", invoked |-> due, results |-> results,
                       outcomes |-> outcomes]
        /\ UNCHANGED <<retention_hours, mnow, h_running>>
        /\ UNCHANGED <<alertVars, thrVars, loopVars, nonMonVars>>

\* a minute passes
HealthTick ==
    /\ mnow < StartTime + MaxHealthMinutes
    /\ mnow' = mnow + 1
    /\ h_event' = [op |-> "tick", invoked |-> {}, results |-> EmptyDict,
                   outcomes |-> EmptyDict]
    /\ UNCHANGED <<retention_hours, metrics, recorded, m_event>>
    /\ UNCHANGED <<health_checks, last_check_results, last_invoked, h_running>>
    /\ UNCHANGED <<alertVars, thrVars, loopVars, nonMonVars>>

NextHealth ==
    \/ \E outcomes \in [DOMAIN ProbeIntervals -> ProbeOutcomes] :
          /\ Samples + Len(ProbeOrder) <= MaxHealthSamples
          /\ RunHealthChecks(outcomes)
    \/ HealthTick

SpecHealth == InitHealth /\ [][NextHealth]_vars

\* C18: a run invokes the function of a probe only if the probe was never invoked
\* or at least its interval has passed since its latest invocation, whether that
\* invocation returned or raised; and for a probe it does not invoke, the run
\* reports the result of the probe's latest invocation.
C18_ProbesKeepTheirIntervals ==
    [][ h_event'.op = "run" =>
          \A n \in DOMAIN health_checks :
            /\ n \in h_event'.invoked =>
                  \/ last_invoked[n] = NoTime
                  \/ mnow - last_invoked[n] >= health_checks[n].interval
            /\ n \notin h_event'.invoked =>
                  /\ last_invoked[n] # NoTime
                  /\ h_event'.results[n] = last_check_results[n] ]_vars

\* the samples of the health metric of probe n
HealthSeries(log, n) == Get(log, "health_check_" \o n, <<>>)

\* C29: in a run, a probe whose function raises is reported as unhealthy with the
\* error, and one sample of value 0 is recorded for its health metric; every other
\* probe that is due is invoked all the same and reported with its own outcome;
\* and the result of the run has exactly one entry per registered probe.
C29_RaisingProbeIsReported ==
    [][ h_event'.op = "run" =>
          /\ DOMAIN h_event'.results = DOMAIN health_checks
          /\ h_event'.invoked = {n \in DOMAIN health_checks : IsDue(health_checks[n], mnow)}
          /\ \A n \in h_event'.invoked :
               LET before == HealthSeries(recorded, n)
                   after == HealthSeries(recorded', n)
               IN  /\ Len(after) = Len(before) + 1
                   /\ HealthSeries(metrics', n) = after
                   /\ IF h_event'.outcomes[n] = "raises"
                      THEN /\ h_event'.results[n].healthy = FALSE
                           /\ h_event'.results[n].error = "raised"
                           /\ after[Len(after)].value = 0
                      ELSE /\ h_event'.results[n].healthy = (h_event'.outcomes[n] = "healthy")
                           /\ h_event'.results[n].error = "None"
                           /\ after[Len(after)].value
                                = (IF h_event'.outcomes[n] = "healthy" THEN 1 ELSE 0) ]_vars

\* the first probe raised and the second one, invoked after it, is reported healthy
C29_Witness ==
    /\ h_event.op = "run"
    /\ h_event.invoked = {"jira", "storage"}
    /\ h_event.outcomes["jira"] = "raises"
    /\ h_event.results["jira"] = [healthy |-> FALSE, last_check |-> mnow, error |-> "raised"]
    /\ h_event.results["storage"].healthy
    /\ HealthSeries(metrics, "jira") # <<>>
    /\ HealthSeries(metrics, "storage") # <<>>

-----------------------------------------------------------------------------
(* The health checker with a probe whose function never returns (specification
   SpecHang). run_health_checks calls check_config["func"]() in its own thread,
   inside the loop over the probes. *)

\* the probes registered before probe h: the loop reaches them first
RegisteredBefore(h) ==
    {ProbeOrder[j] : j \in {i \in 1..Len(ProbeOrder) : \E k \in (i + 1)..Len(ProbeOrder) :
                                                        ProbeOrder[k] = h}}

\* run_health_checks() when the function of probe h, which is due, never returns:
\* the probes before h are handled as in any run, then the call stays inside h
RunHangs(outcomes, h) ==
    LET current_time == mnow
        due == {n \in DOMAIN health_checks : IsDue(health_checks[n], current_time)}
        earlier == due \cap RegisteredBefore(h)
        reached == [n \in earlier |-> health_checks[n]]
    IN  /\ h_running = ""
        /\ h \in due
        /\ \A n \in DOMAIN health_checks \ earlier : outcomes[n] = "healthy"
        /\ health_checks' = [n \in DOMAIN health_checks |->
              [health_checks[n] EXCEPT
                 !.last_check = LastCheckAfter(health_checks[n], n \in earlier, outcomes[n],
                                               current_time)]]
        /\ last_invoked' = [n \in DOMAIN last_invoked |->
                              IF n \in earlier \cup {h} THEN mnow ELSE last_invoked[n]]
        /\ metrics' = HealthRecorded(metrics, reached, outcomes, 1)
        /\ recorded' = HealthLogged(recorded, reached, outcomes, 1)
        /\ m_event' = IF earlier = {} THEN m_event
                      ELSE MEvent("record", "health_check", 0, <<>>, NoData)
        /\ h_event' = [op |-> "hung", invoked |-> earlier \cup {h}, results |-> EmptyDict,
                       outcomes |-> outcomes]
        /\ h_running' = h
        /\ UNCHANGED <<retention_hours, mnow, last_check_results>>
        /\ UNCHANGED <<alertVars, thrVars, loopVars, nonMonVars>>

NextHang ==
    \/ \E outcomes \in [DOMAIN ProbeIntervals -> ProbeOutcomes] :
          /\ Samples + Len(ProbeOrder) <= MaxHealthSamples
          /\ RunHealthChecks(outcomes)
    \/ \E outcomes \in [DOMAIN ProbeIntervals -> ProbeOutcomes], h \in DOMAIN ProbeIntervals :
          /\ Samples + Len(ProbeOrder) <= MaxHealthSamples
          /\ RunHangs(outcomes, h)
    \/ HealthTick

SpecHang == InitHealth /\ [][NextHang]_vars

\* C30: a probe function that never returns does not keep the other probes from
\* being executed and reported: every call of run_health_checks invokes each
\* probe that is due and returns a result for every registered probe, and the
\* checker is never left inside the function of a probe.
C30_HangingProbeIsTimedOut ==
    [][ h_event'.op \in {"run", "hung"} =>
          /\ h_event'.invoked = {n \in DOMAIN health_checks : IsDue(health_checks[n], mnow)}
          /\ DOMAIN h_event'.results = DOMAIN health_checks
          /\ h_running' = "" ]_vars

-----------------------------------------------------------------------------
(* The monitoring loop of AlertManager (specification SpecLoop). start_monitoring
   and stop_monitoring are called by one thread, one call after the other; every
   start that finds running false makes a new daemon thread that runs
   _monitoring_loop: test self.running, one pass of _check_alerts over the rules,
   time.sleep(check_interval). A pass takes any time. The clock is in units of
   5 s: check_interval is 60 s and the join of stop_monitoring waits 5 s at most.
   SystemMetricsCollector.start_collection, stop_collection and _collect_loop are
   written in the same way, with an interval of 30 s. *)

LoopThread(p, i, w) == [pc |-> p, idx |-> i, wake_at |-> w]

LEvent(op, t) == [op |-> op, thread |-> t]

\* threading.Thread.is_alive of the threads made so far
Alive == {t \in 1..Len(loop_threads) : loop_threads[t].pc # "terminated"}

\* start_monitoring
StartMonitoring ==
    /\ main_call.pc = "idle"
    /\ IF am_running
       THEN /\ l_event' = LEvent("start_noop", 0)
            /\ UNCHANGED <<am_running, check_thread, loop_threads>>
       ELSE /\ Len(loop_threads) < MaxLoopThreads
            /\ am_running' = TRUE
            /\ loop_threads' = Append(loop_threads, LoopThread("testing", 0, 0))
            /\ check_thread' = Len(loop_threads) + 1
            /\ l_event' = LEvent("started", Len(loop_threads) + 1)
    /\ UNCHANGED <<main_call, loop_clock>>

\* stop_monitoring up to the join: without a thread it returns at once
StopMonitoring ==
    /\ main_call.pc = "idle"
    /\ am_running' = FALSE
    /\ IF check_thread = 0
       THEN /\ l_event' = LEvent("stopped", 0)
            /\ UNCHANGED main_call
       ELSE /\ main_call' = [pc |-> "joining", deadline |-> loop_clock + JoinTimeout]
            /\ l_event' = LEvent("stopping", check_thread)
    /\ UNCHANGED <<check_thread, loop_threads, loop_clock>>

\* check_thread.join(timeout=5) returns, and stop_monitoring with it: the thread
\* has ended or the timeout has passed
JoinReturns ==
    /\ main_call.pc = "joining"
    /\ \/ check_thread \notin Alive
       \/ loop_clock >= main_call.deadline
    /\ main_call' = [pc |-> "idle", deadline |-> 0]
    /\ l_event' = LEvent("stopped", check_thread)
    /\ UNCHANGED <<am_running, check_thread, loop_threads, loop_clock>>

\* _monitoring_loop: while self.running
LoopTest(t) ==
    /\ loop_threads[t].pc = "testing"
    /\ loop_threads' = [loop_threads EXCEPT ![t] =
                          IF am_running THEN LoopThread("evaluating", 1, 0)
                          ELSE LoopThread("terminated", 0, 0)]
    /\ l_event' = LEvent(IF am_running THEN "pass" ELSE "exit", t)
    /\ UNCHANGED <<am_running, check_thread, main_call, loop_clock>>

\* _check_alerts: the evaluation of one rule; after the last one, time.sleep
LoopRule(t) ==
    /\ loop_threads[t].pc = "evaluating"
    /\ loop_threads' = [loop_threads EXCEPT ![t] =
                          IF loop_threads[t].idx < Len(alert_rules)
                          THEN LoopThread("evaluating", loop_threads[t].idx + 1, 0)
                          ELSE LoopThread("sleeping", 0, loop_clock + CheckInterval)]
    /\ l_event' = LEvent("rule", t)
    /\ UNCHANGED <<am_running, check_thread, main_call, loop_clock>>

\* time.sleep(self.check_interval) is over
LoopWake(t) ==
    /\ loop_threads[t].pc = "sleeping"
    /\ loop_clock >= loop_threads[t].wake_at
    /\ loop_threads' = [loop_threads EXCEPT ![t] = LoopThread("testing", 0, 0)]
    /\ l_event' = LEvent("wake", t)
    /\ UNCHANGED <<am_running, check_thread, main_call, loop_clock>>

\* 5 s pass; a sleep or a join whose time is over ends first, and so does the
\* test of self.running, which takes no time
LoopTick ==
    /\ loop_clock < MaxLoopClock
    /\ \A t \in 1..Len(loop_threads) :
          /\ loop_threads[t].pc # "testing"
          /\ loop_threads[t].pc = "sleeping" => loop_clock < loop_threads[t].wake_at
    /\ main_call.pc = "joining" => loop_clock < main_call.deadline
    /\ loop_clock' = loop_clock + 1
    /\ l_event' = LEvent("tick", 0)
    /\ UNCHANGED <<am_running, check_thread, loop_threads, main_call>>

NextLoop ==
    \/ StartMonitoring /\ UNCHANGED <<metVars, thrVars, alertVars, healthVars, nonMonVars>>
    \/ StopMonitoring /\ UNCHANGED <<metVars, thrVars, alertVars, healthVars, nonMonVars>>
    \/ JoinReturns /\ UNCHANGED <<metVars, thrVars, alertVars, healthVars, nonMonVars>>
    \/ \E t \in 1..Len(loop_threads) :
          LoopTest(t) /\ UNCHANGED <<metVars, thrVars, alertVars, healthVars, nonMonVars>>
    \/ \E t \in 1..Len(loop_threads) :
          LoopRule(t) /\ UNCHANGED <<metVars, thrVars, alertVars, healthVars, nonMonVars>>
    \/ \E t \in 1..Len(loop_threads) :
          LoopWake(t) /\ UNCHANGED <<metVars, thrVars, alertVars, healthVars, nonMonVars>>
    \/ LoopTick /\ UNCHANGED <<metVars, thrVars, alertVars, healthVars, nonMonVars>>

SpecLoop == InitAlerts /\ [][NextLoop]_vars

\* C31: stopping is awaited: when stop_monitoring has returned the loop thread has
\* terminated, so no rule evaluation is in progress, and until the next start no
\* thread begins a pass.
C31_StopIsAwaited ==
    [][ /\ l_event'.op = "stopped" => Alive' = {}
        /\ (~am_running /\ main_call.pc = "idle") => l_event'.op # "pass" ]_vars

\* C38: at most one monitoring loop is active at any time: over any sequence of
\* start_monitoring and stop_monitoring calls at most one loop thread is alive,
\* and two threads never evaluate rules at the same time.
C38_OneLoopAtATime ==
    /\ Cardinality(Alive) <= 1
    /\ Cardinality({t \in 1..Len(loop_threads) : loop_threads[t].pc = "evaluating"}) <= 1

====
